---- MODULE Spec2Model ----
(***************************************************************************)
(* Image tiling / normalisation core of BaseweightSnap:                    *)
(*   rust-tokenizer/src/lib.rs            nanovlm_* boundary operations    *)
(*   smolvlm_rs_lib/src/image_processor.rs SmolVLMImageProcessor           *)
(*                                                                         *)
(* The code computes with IEEE-754 binary floating point (f64 in the       *)
(* geometry planner, f32 in the normalisers).  Those operations are        *)
(* modelled bit-exactly: a float is a sign, an arbitrary-precision         *)
(* mantissa (a sequence of bits, most significant first) and a binary      *)
(* exponent, and every operation rounds its exact result to the format's   *)
(* precision with round-to-nearest, ties-to-even.  Exponent range          *)
(* (overflow, subnormals) is never reached by the magnitudes modelled.     *)
(***************************************************************************)
EXTENDS Integers, Sequences, FiniteSets, TLC

(***************************************************************************)
(* Bounds of the model.                                                    *)
(***************************************************************************)
MaxDim       == 4   \* source images are 1..MaxDim pixels wide and high
MaxSideBound == 6   \* max_side_len ranges over 1..MaxSideBound
MaxPatch     == 3   \* patch_size ranges over 1..MaxPatch
MaxTile      == 2   \* rasters converted pixel by pixel are at most MaxTile x MaxTile
MaxTarget    == 2   \* target_size ranges over 1..MaxTarget
MaxText      == 2   \* the text given to nanovlm_tokenize has at most MaxText lexemes
MaxRepeat    == 2   \* image_token_length ranges over 0..MaxRepeat
MaxCalls     == 3   \* a run performs at most MaxCalls SmolVLM operations
MaxEdgeLen   == 6   \* rescale_size is applied to sizes and limits in 1..MaxEdgeLen
MaxThreads   == 2   \* host threads 1..MaxThreads call into the bridge

(***************************************************************************)
(* Floating-point formats.                                                 *)
(***************************************************************************)
F64 == 53   \* significand precision of f64 (Rust `f64`)
F32 == 24   \* significand precision of f32 (Rust `f32`, `c_float`)

Min(a, b) == IF a <= b THEN a ELSE b
Max(a, b) == IF a >= b THEN a ELSE b

(***************************************************************************)
(* Arbitrary-precision naturals: bit sequences, most significant bit       *)
(* first, no leading zero; zero is the empty sequence.  Arithmetic is done *)
(* on limbs of LimbBits bits (most significant limb first), so that every  *)
(* intermediate value fits a machine integer of the model checker.         *)
(***************************************************************************)
LimbBits == 15
LimbBase == 2^LimbBits

Zeros(k) == [i \in 1..k |-> 0]

\* drop leading zeros
BigStrip(b) ==
  IF \A i \in 1..Len(b) : b[i] = 0 THEN << >>
  ELSE LET f == CHOOSE i \in 1..Len(b) : b[i] = 1 /\ \A j \in 1..(i - 1) : b[j] = 0
       IN  SubSeq(b, f, Len(b))

\* b * 2^k
BigShl(b, k) == IF b = << >> THEN b ELSE b \o Zeros(k)

\* b padded with leading zeros to n bits
BigPad(b, n) ==
  [i \in 1..n |-> IF i <= n - Len(b) THEN 0 ELSE b[i - (n - Len(b))]]

\* value of a bit sequence of at most 30 bits
RECURSIVE BigToInt(_)
BigToInt(b) ==
  IF b = << >> THEN 0
  ELSE 2 * BigToInt(SubSeq(b, 1, Len(b) - 1)) + b[Len(b)]

RECURSIVE BigFromInt(_)
BigFromInt(n) ==
  IF n = 0 THEN << >> ELSE Append(BigFromInt(n \div 2), n % 2)

ToLimbs(b) ==
  LET n == (Len(b) + LimbBits - 1) \div LimbBits
      p == BigPad(b, n * LimbBits)
  IN  [j \in 1..n |-> BigToInt(SubSeq(p, (j - 1) * LimbBits + 1, j * LimbBits))]

FromLimbs(l) ==
  BigStrip([i \in 1..(Len(l) * LimbBits) |->
             (l[((i - 1) \div LimbBits) + 1]
                \div 2^(LimbBits - 1 - ((i - 1) % LimbBits))) % 2])

\* l padded with leading zero limbs to n limbs
LimbPad(l, n) ==
  [i \in 1..n |-> IF i <= n - Len(l) THEN 0 ELSE l[i - (n - Len(l))]]

\* -1, 0, 1 as a < b, a = b, a > b
BigCmp(a, b) ==
  IF Len(a) # Len(b) THEN (IF Len(a) < Len(b) THEN -1 ELSE 1)
  ELSE IF a = b THEN 0
  ELSE LET f == CHOOSE i \in 1..Len(a) : a[i] # b[i] /\ \A j \in 1..(i - 1) : a[j] = b[j]
       IN  IF a[f] < b[f] THEN -1 ELSE 1

RECURSIVE LimbAdd(_, _, _, _)
LimbAdd(a, b, i, c) ==
  IF i = 0 THEN (IF c = 0 THEN << >> ELSE <<c>>)
  ELSE LET t == a[i] + b[i] + c
       IN  Append(LimbAdd(a, b, i - 1, t \div LimbBase), t % LimbBase)

BigAdd(a, b) ==
  LET la == ToLimbs(a)
      lb == ToLimbs(b)
      n  == Max(Len(la), Len(lb))
  IN  FromLimbs(LimbAdd(LimbPad(la, n), LimbPad(lb, n), n, 0))

RECURSIVE LimbSub(_, _, _, _)
LimbSub(a, b, i, br) ==
  IF i = 0 THEN << >>
  ELSE LET t == a[i] - b[i] - br
       IN  Append(LimbSub(a, b, i - 1, IF t < 0 THEN 1 ELSE 0), (t + LimbBase) % LimbBase)

\* a - b, for a >= b
BigSub(a, b) ==
  LET la == ToLimbs(a)
      n  == Len(la)
  IN  FromLimbs(LimbSub(la, LimbPad(ToLimbs(b), n), n, 0))

RECURSIVE LimbMul(_, _, _, _)
LimbMul(a, s, i, c) ==
  IF i = 0 THEN (IF c = 0 THEN << >> ELSE <<c>>)
  ELSE LET t == a[i] * s + c
       IN  Append(LimbMul(a, s, i - 1, t \div LimbBase), t % LimbBase)

\* a * s, for an integer 0 <= s < LimbBase
BigMulSmall(a, s) ==
  LET la == ToLimbs(a) IN FromLimbs(LimbMul(la, s, Len(la), 0))

\* remainder of the first i limbs of a by d
RECURSIVE LimbRem(_, _, _)
LimbRem(a, d, i) ==
  IF i = 0 THEN 0 ELSE (LimbRem(a, d, i - 1) * LimbBase + a[i]) % d

\* quotient and remainder of a by an integer 0 < d < LimbBase (long division)
BigDivSmall(a, d) ==
  LET la == ToLimbs(a)
  IN  [q |-> FromLimbs([i \in 1..Len(la) |->
                          (LimbRem(la, d, i - 1) * LimbBase + la[i]) \div d]),
       r |-> LimbRem(la, d, Len(la))]

(***************************************************************************)
(* Floats: [neg, m, e] is (-1)^neg * m * 2^e, m odd or zero (canonical).   *)
(* The multiplications and divisions of the code always have one operand   *)
(* that is a small integer times a power of two (a pixel byte, an image    *)
(* dimension, 255.0, 0.5): FSmall is that operand's odd mantissa.          *)
(***************************************************************************)
FZero == [neg |-> FALSE, m |-> << >>, e |-> 0]

\* strip trailing zero bits into the exponent
FCanon(neg, m, e) ==
  IF \A i \in 1..Len(m) : m[i] = 0 THEN FZero
  ELSE LET l == CHOOSE i \in 1..Len(m) : m[i] = 1 /\ \A j \in (i + 1)..Len(m) : m[j] = 0
       IN  [neg |-> neg, m |-> SubSeq(m, 1, l), e |-> e + (Len(m) - l)]

\* Round (m + t) * 2^e, 0 <= t < 1, sticky <=> t > 0, to prec significant
\* bits, round-to-nearest ties-to-even.  With sticky set, m has more than
\* prec bits.
FRound(neg, m, e, sticky, prec) ==
  LET n == Len(m)
  IN  IF n <= prec THEN FCanon(neg, m, e)
      ELSE LET keep == SubSeq(m, 1, prec)
               rb   == m[prec + 1]
               st   == sticky \/ \E i \in (prec + 2)..n : m[i] = 1
               up   == rb = 1 /\ (st \/ keep[prec] = 1)
           IN  FCanon(neg, IF up THEN BigAdd(keep, <<1>>) ELSE keep, e + (n - prec))

\* `n as f64`, `n as f32` for an unsigned integer n
FFromInt(n, prec) == FRound(FALSE, BigFromInt(n), 0, FALSE, prec)

FSmall(x) == BigToInt(x.m)

\* x * y, one of the two with a small mantissa
FMul(x, y, prec) ==
  IF x.m = << >> \/ y.m = << >> THEN FZero
  ELSE LET big   == IF Len(x.m) >= Len(y.m) THEN x ELSE y
           small == IF Len(x.m) >= Len(y.m) THEN y ELSE x
       IN  FRound(x.neg # y.neg, BigMulSmall(big.m, FSmall(small)), x.e + y.e, FALSE, prec)

\* x / y, y # 0 with a small mantissa
FDiv(x, y, prec) ==
  IF x.m = << >> THEN FZero
  ELSE LET k  == prec + 2 + Len(y.m)
           qr == BigDivSmall(BigShl(x.m, k), FSmall(y))
       IN  FRound(x.neg # y.neg, qr.q, x.e - k - y.e, qr.r # 0, prec)

\* magnitudes of x and y on the common exponent Min(x.e, y.e)
FAlign(x, y) ==
  LET e0 == Min(x.e, y.e)
  IN  [a |-> BigShl(x.m, x.e - e0), b |-> BigShl(y.m, y.e - e0), e |-> e0]

FAdd(x, y, prec) ==
  LET al == FAlign(x, y)
  IN  IF x.neg = y.neg THEN FRound(x.neg, BigAdd(al.a, al.b), al.e, FALSE, prec)
      ELSE IF BigCmp(al.a, al.b) >= 0
           THEN FRound(x.neg, BigSub(al.a, al.b), al.e, FALSE, prec)
           ELSE FRound(y.neg, BigSub(al.b, al.a), al.e, FALSE, prec)

FNeg(x) == IF x.m = << >> THEN x ELSE [x EXCEPT !.neg = ~x.neg]

FSub(x, y, prec) == FAdd(x, FNeg(y), prec)

\* -1, 0, 1 as x < y, x = y, x > y
FCmp(x, y) ==
  LET al == FAlign(x, y)
      c  == BigCmp(al.a, al.b)
  IN  IF x.neg # y.neg THEN (IF x.neg THEN -1 ELSE 1)
      ELSE IF x.neg THEN 0 - c ELSE c

FLeq(x, y) == FCmp(x, y) <= 0

\* `x.ceil() as usize`: the ceiling, negative values saturating to 0
FCeilToInt(x) ==
  IF x.m = << >> \/ x.neg THEN 0
  ELSE IF x.e >= 0 THEN BigToInt(BigShl(x.m, x.e))
  ELSE IF Len(x.m) <= 0 - x.e THEN 1
  ELSE BigToInt(SubSeq(x.m, 1, Len(x.m) + x.e)) + 1

(***************************************************************************)
(* State.                                                                  *)
(***************************************************************************)
VARIABLES
  pc,                \* "call": arguments bound, "done": returned, "panic": unwound
  image_path,        \* what the path argument leads to (PathKinds)
  orig_w, orig_h,    \* dimensions of the decoded image
  max_side_len, patch_size, resize_to_max,   \* nanovlm_preprocess_image_with_splitting
  resampler_ok,      \* whether Resizer::resize of resize_bicubic returns Ok
  new_h, new_w,      \* the resize plan of compute_dynamic_resize
  multi_image_data,  \* the MultiImageData returned
  fn,                \* the conversion applied (the tensor normalisers)
  rgb,               \* the RGB raster read by a conversion
  target_w, target_h,          \* process_image_to_chw, resize_bicubic
  do_rescale, do_normalize,    \* SmolVLMImageProcessor configuration
  tensor,            \* the float buffer produced
  target_size,       \* nanovlm_preprocess_image
  image_data,        \* the ImageData returned
  tokenizer_path,    \* what the path given to nanovlm_load_tokenizer leads to
  image_token,       \* the image_token argument of nanovlm_load_tokenizer
  base,              \* the tokenizer stored in the file at tokenizer_path
  handle,            \* the TokenizerHandle returned
  text,              \* the text argument of nanovlm_tokenize
  image_token_length,          \* the repeat count given to nanovlm_tokenize
  encode_ok,         \* whether the tokenizer accepts the prompt
  tok_result,        \* the TokenizationResult returned
  ids_arg,           \* the token_ids argument of nanovlm_decode
  decode_ok,         \* whether the tokenizer decodes the ids
  decoded,           \* the string returned by nanovlm_decode
  processor,         \* the SmolVLMProcessor behind SMOLVLM_INSTANCE
  calls,             \* the number of SmolVLM operations performed
  op,                \* the SmolVLM operation performed last
  ret,               \* what that operation returned
  buf_width, buf_height,       \* the image given to process_image_from_buffer
  num_patches,       \* the tiles SmolVLMImageProcessor::preprocess made of it
  user_prompt,       \* the prompt given to generate_response
  full_prompt,       \* the expanded prompt it built
  input_ids,         \* the token ids of the expanded prompt
  feature_idx,       \* the number of image features spliced in
  input_embeds,      \* per position, the feature row spliced in (0: none)
  sessions_run,      \* the sessions the last SmolVLM operation ran
  longest_edge,      \* the max_size argument of rescale_size
  rescaled,          \* the (height, width) rescale_size returned
  variant,           \* the host bridge: SMOLVLM_INSTANCE static mut or OnceLock
  jni_call,          \* per thread, the bridge function it calls
  thread_pc,         \* per thread, where it is in that function
  SMOLVLM_INSTANCE,  \* the processor in the static (0: None)
  instances_created, \* the number of SmolVLMProcessor::new() calls
  instance_ref,      \* per thread, the processor get_or_create_instance gave it
  lock_owner,        \* the thread that holds the Mutex in the static (0: free)
  operating,         \* the threads inside a processor method
  heap,              \* the buffers handed to the host and not yet released
  faulted            \* whether a release freed what was not allocated

splitVars == <<max_side_len, patch_size, resize_to_max, resampler_ok,
               new_h, new_w, multi_image_data>>

normVars == <<fn, target_w, target_h, do_rescale, do_normalize, tensor>>

fixedVars == <<target_size, image_data>>

tokVars == <<tokenizer_path, image_token, base, handle, text,
             image_token_length, encode_ok, tok_result, ids_arg, decode_ok, decoded>>

rescaleVars == <<longest_edge, rescaled>>

bridgeVars == <<variant, jni_call, thread_pc, SMOLVLM_INSTANCE, instances_created,
                instance_ref, lock_owner, operating>>

smolVars == <<processor, calls, op, ret, buf_width, buf_height, num_patches,
              user_prompt, full_prompt, input_ids, feature_idx, input_embeds,
              sessions_run,
              rescaleVars, bridgeVars>>

textVars == <<tokVars, smolVars>>

memVars == <<heap, faulted>>

vars == <<pc, image_path, orig_w, orig_h, rgb, splitVars, normVars, fixedVars, textVars,
          memVars>>

\* the path argument: a null pointer, bytes that are not UTF-8, a file that
\* cannot be opened, a file that does not decode, a decodable image
PathKinds == {"null", "not_utf8", "unreadable", "undecodable", "image"}

(***************************************************************************)
(* Rasters: an RgbImage of w x h pixels, px[<<x, y>>] the three channel     *)
(* bytes (R, G, B) of the pixel in column x, row y.                        *)
(***************************************************************************)
Bytes == 0..255

\* the raster whose bytes count up from seed in row-major, channel-minor
\* order, modulo 256
Raster(w, h, seed) ==
  [w |-> w, h |-> h,
   px |-> [p \in (0..(w - 1)) \X (0..(h - 1)) |->
             [c \in 1..3 |-> (seed + 3 * (p[2] * w + p[1]) + (c - 1)) % 256]]]

NoRaster == [w |-> 0, h |-> 0, px |-> << >>]

\* RgbImage::get_pixel(x, y)[c]
PixelChannel(img, x, y, c) == img.px[<<x, y>>][c + 1]

\* The resampling kernels (image::imageops CatmullRom, fast_image_resize)
\* are library code: they return an image of exactly the requested size with
\* bytes in 0..255.  Its bytes are taken here from the nearest source pixel.
Resample(img, nwidth, nheight) ==
  [w |-> nwidth, h |-> nheight,
   px |-> [p \in (0..(nwidth - 1)) \X (0..(nheight - 1)) |->
             img.px[<<(p[1] * img.w) \div nwidth, (p[2] * img.h) \div nheight>>]]]

NoTensor == [data |-> << >>, writes |-> << >>, width |-> 0, height |-> 0, channels |-> 0]

NullImageData == [data |-> << >>, null |-> TRUE, width |-> 0, height |-> 0, channels |-> 0]

IdleNorm ==
  /\ fn = "none" /\ target_w = 0 /\ target_h = 0
  /\ do_rescale = FALSE /\ do_normalize = FALSE /\ tensor = NoTensor

IdleFixed == target_size = 0 /\ image_data = NullImageData

\* a tokenizer: the size of the model vocabulary, the added vocabulary (the
\* entries [content, id]) and the number of add_special_tokens calls made on it
NoTokenizer == [vocab_size |-> 0, added |-> << >>, registrations |-> 0]

NullHandle == [null |-> TRUE, tokenizer |-> NoTokenizer, image_token_id |-> 0,
               image_token |-> ""]

NullTokenizationResult ==
  [null |-> TRUE, token_ids |-> << >>, num_tokens |-> 0,
   image_token_positions |-> << >>, num_image_tokens |-> 0]

\* a null token_ids pointer; the null pointer returned by nanovlm_decode
NoIds == [null |-> TRUE, ids |-> << >>]

NullString == [null |-> TRUE, s |-> << >>]

IdleDecode == ids_arg = NoIds /\ decode_ok = FALSE /\ decoded = NullString

IdleTok ==
  /\ tokenizer_path = "null" /\ image_token = "null" /\ base = NoTokenizer
  /\ handle = NullHandle /\ text = [kind |-> "null", s |-> << >>]
  /\ image_token_length = 0
  /\ encode_ok = FALSE /\ tok_result = NullTokenizationResult
  /\ IdleDecode

\* SmolVLMProcessor::new()
NewProcessor ==
  [vision_session |-> FALSE, embed_session |-> FALSE, decoder_session |-> FALSE,
   tokenizer |-> [some |-> FALSE, tk |-> NoTokenizer],
   image_embeddings |-> [some |-> FALSE, rows |-> 0],
   initialized |-> FALSE]

\* no size returned yet
NoSize == [height |-> 0, width |-> 0]

IdleRescale == longest_edge = 0 /\ rescaled = NoSize

\* the host threads
Threads == 1..MaxThreads

\* no thread has called into the bridge
IdleBridge ==
  /\ variant = "none"
  /\ jni_call = [t \in Threads |-> "none"]
  /\ thread_pc = [t \in Threads |-> "idle"]
  /\ SMOLVLM_INSTANCE = 0 /\ instances_created = 0
  /\ instance_ref = [t \in Threads |-> 0]
  /\ lock_owner = 0 /\ operating = {}

IdleSmol ==
  /\ processor = NewProcessor /\ calls = 0 /\ op = "none" /\ ret = "none"
  /\ buf_width = 0 /\ buf_height = 0 /\ num_patches = 0
  /\ user_prompt = << >> /\ full_prompt = << >> /\ input_ids = << >>
  /\ feature_idx = 0 /\ input_embeds = << >> /\ sessions_run = {}
  /\ IdleRescale
  /\ IdleBridge

IdleText == IdleTok /\ IdleSmol

(***************************************************************************)
(* Buffers.  A buffer handed to the host is the leaked Box of a slice: the *)
(* place it hangs from in the result (with the tile index for the tiles of *)
(* a MultiImageData) and the number of elements it was allocated with.  A  *)
(* slice of no elements is not an allocation.                              *)
(***************************************************************************)
IdleMem == heap = {} /\ faulted = FALSE

\* into_boxed_slice / Box::new leaked as a raw pointer; Box::from_raw of a
\* slice of len elements
Buffer(addr, idx, len) ==
  IF len = 0 THEN {} ELSE {[addr |-> addr, idx |-> idx, len |-> len]}

\* the Box of the TokenizerHandle returned by nanovlm_load_tokenizer
HandleBuffers(h) == IF h.null THEN {} ELSE Buffer("handle", 0, 1)

\* the two boxed slices of nanovlm_tokenize
TokenizationBuffers(result) ==
  IF result.null THEN {}
  ELSE Buffer("token_ids", 0, Len(result.token_ids))
         \cup Buffer("image_token_positions", 0, Len(result.image_token_positions))

\* the boxed slice of nanovlm_preprocess_image
ImageDataBuffers(img) ==
  IF img.null THEN {} ELSE Buffer("data", 0, Len(img.data))

\* the boxed slices of the tiles and the boxed array of ImageData structs
MultiImageBuffers(multi) ==
  IF multi.null THEN {}
  ELSE Buffer("images", 0, Len(multi.images))
         \cup UNION {Buffer("data", i, multi.images[i].data.len) :
                       i \in 1..Len(multi.images)}

\* the CString of nanovlm_decode: the bytes of the text and the NUL
StringBuffers(str) == IF str.null THEN {} ELSE Buffer("string", 0, Len(str.s) + 1)

(***************************************************************************)
(* compute_dynamic_resize (rust-tokenizer/src/lib.rs)                      *)
(***************************************************************************)
\* variant: the long side rounded down to a multiple of the patch size
TargetLongFloor(long, max_side, patch, to_max) ==
  IF to_max THEN max_side
  ELSE Min(max_side, (long \div patch) * patch)

\* target long side
TargetLong(long, max_side, patch, to_max) ==
  IF to_max THEN max_side
  ELSE Min(max_side, ((long + patch - 1) \div patch) * patch)

\* scale factor, f64
ScaleFactor(target_long, long) ==
  FDiv(FFromInt(target_long, F64), FFromInt(long, F64), F64)

\* short side, f64 ceiling then the one-patch floor
TargetShort(short, scale, patch) ==
  Max(FCeilToInt(FDiv(FMul(FFromInt(short, F64), scale, F64),
                      FFromInt(patch, F64), F64)) * patch,
      patch)

\* returns <<height, width>>
compute_dynamic_resize(h, w, max_side, patch, to_max) ==
  LET long         == IF w >= h THEN w ELSE h
      short        == IF w >= h THEN h ELSE w
      target_long  == TargetLong(long, max_side, patch, to_max)
      scale        == ScaleFactor(target_long, long)
      target_short == TargetShort(short, scale, patch)
  IN  IF w >= h THEN <<target_short, target_long>>
      ELSE <<target_long, target_short>>

(***************************************************************************)
(* Images and tiles.  An image is described by where its pixels come from: *)
(* the resized canvas, a crop view of it, or the canvas resampled again.   *)
(***************************************************************************)
\* DynamicImage::resize_exact: an image of exactly the requested size
resize_exact(nwidth, nheight) ==
  [kind |-> "resized", x |-> 0, y |-> 0, w |-> nwidth, h |-> nheight]

\* DynamicImage::crop_imm: the view is clamped to the image
crop_imm(img, x, y, width, height) ==
  LET cx == Min(x, img.w)
      cy == Min(y, img.h)
  IN  [kind |-> "crop", x |-> cx, y |-> cy,
       w |-> Min(width, img.w - cx), h |-> Min(height, img.h - cy)]

\* get_pixel(x, y) panics outside the image: some iteration of the
\* conversion loop reads outside img
ReadsOutside(img, tw, th) ==
  tw >= 1 /\ th >= 1 /\ (tw > img.w \/ th > img.h)

\* process_image_to_chw: (data, tw, th, channels); data is the
\* buffer of total_size floats read from the top-left of img
process_image_to_chw(img, tw, th) ==
  [data |-> [len |-> 3 * th * tw, of |-> img],
   width |-> tw, height |-> th, channels |-> 3]

\* resize_bicubic: img resampled as a whole to tw x th
resize_bicubic(img, tw, th) ==
  [data |-> [len |-> 3 * th * tw,
             of  |-> [kind |-> "bicubic", x |-> 0, y |-> 0, w |-> tw, h |-> th]],
   width |-> tw, height |-> th, channels |-> 3]

NullMultiImageData ==
  [images |-> << >>, null |-> TRUE, num_images |-> 0, grid_h |-> 0, grid_w |-> 0]

\* variant: the grid count rounded up
GridCountCeil(new_side, patch) == (new_side + patch - 1) \div patch

\* grid of the resized canvas
GridCount(new_side, patch) == new_side \div patch

\* the patch of grid cell (row, col)
PatchAt(resized, row, col, patch) ==
  process_image_to_chw(crop_imm(resized, col * patch, row * patch, patch, patch),
                       patch, patch)

\* variant: the two loops exchanged (column-major)
RECURSIVE PushPatchesColMajor(_, _, _, _, _, _)
PushPatchesColMajor(image_list, resized, col, grid_h, grid_w, patch) ==
  IF col >= grid_w THEN image_list
  ELSE PushPatchesColMajor(
         image_list \o [r \in 1..grid_h |-> PatchAt(resized, r - 1, col, patch)],
         resized, col + 1, grid_h, grid_w, patch)

\* for row in 0..grid_h { for col in 0..grid_w { image_list.push(..) } }
RECURSIVE PushPatches(_, _, _, _, _, _)
PushPatches(image_list, resized, row, grid_h, grid_w, patch) ==
  IF row >= grid_h THEN image_list
  ELSE PushPatches(image_list \o [c \in 1..grid_w |-> PatchAt(resized, row, c - 1, patch)],
                   resized, row + 1, grid_h, grid_w, patch)

\* variant: the global view is always added
ImageListAlwaysGlobal(resized, grid_h, grid_w, patch) ==
  PushPatches(<<resize_bicubic(resized, patch, patch)>>,
              resized, 0, grid_h, grid_w, patch)

\* step 3: global view + patches, unless there is only one patch
ImageList(resized, grid_h, grid_w, patch) ==
  IF grid_h = 1 /\ grid_w = 1
  THEN <<process_image_to_chw(resized, patch, patch)>>
  ELSE PushPatches(<<resize_bicubic(resized, patch, patch)>>,
                   resized, 0, grid_h, grid_w, patch)

\* some get_pixel of the conversions reads outside its image
ImageListPanics(image_list) ==
  \E i \in 1..Len(image_list) :
     /\ image_list[i].data.of.kind # "bicubic"
     /\ ReadsOutside(image_list[i].data.of, image_list[i].width, image_list[i].height)

(***************************************************************************)
(* nanovlm_preprocess_image_with_splitting                                 *)
(***************************************************************************)
PreprocessImageWithSplitting ==
  /\ pc = "call" /\ fn = "none"
  /\ IF image_path # "image"
     THEN /\ pc' = "done"
          /\ multi_image_data' = NullMultiImageData
          /\ UNCHANGED <<new_h, new_w>>
     ELSE IF patch_size = 0
     THEN \* `(long + patch_size - 1) / patch_size` in compute_dynamic_resize,
          \* or with resize_to_max `new_h / patch_size`: division by zero
          /\ pc' = "panic"
          /\ UNCHANGED <<new_h, new_w, multi_image_data>>
     ELSE \E hw \in {compute_dynamic_resize(orig_h, orig_w, max_side_len,
                                            patch_size, resize_to_max)} :
          \E resized \in {resize_exact(hw[2], hw[1])} :
          \E grid_h \in {GridCount(hw[1], patch_size)} :
          \E grid_w \in {GridCount(hw[2], patch_size)} :
          \E image_list \in {ImageList(resized, grid_h, grid_w, patch_size)} :
              /\ new_h' = hw[1]
              /\ new_w' = hw[2]
              /\ IF ~(grid_h = 1 /\ grid_w = 1) /\ ~resampler_ok
                 THEN \* resizer.resize(..).unwrap() in resize_bicubic
                      /\ pc' = "panic"
                      /\ UNCHANGED multi_image_data
                 ELSE IF ImageListPanics(image_list)
                 THEN /\ pc' = "panic"
                      /\ UNCHANGED multi_image_data
                 ELSE /\ pc' = "done"
                      /\ multi_image_data' =
                           [images |-> image_list, null |-> FALSE,
                            num_images |-> Len(image_list),
                            grid_h |-> grid_h, grid_w |-> grid_w]
  /\ heap' = IF pc' = "done" THEN heap \cup MultiImageBuffers(multi_image_data')
             ELSE heap
  /\ UNCHANGED <<image_path, orig_w, orig_h, max_side_len, patch_size, resize_to_max,
                 resampler_ok>>
  /\ UNCHANGED <<rgb, normVars, fixedVars, textVars, faulted>>

\* concrete calls: the 1000x400 scenario of the specification and a square
\* 525x525 image, both with max_side_len 896 and patch_size 448
SplitScenarios ==
  { [w |-> 1000, h |-> 400, m |-> 896, p |-> 448, r |-> FALSE],
    [w |-> 525,  h |-> 525, m |-> 896, p |-> 448, r |-> FALSE] }

SplitCalls ==
  [w : 1..MaxDim, h : 1..MaxDim, m : 1..MaxSideBound, p : 1..MaxPatch, r : BOOLEAN]
    \cup SplitScenarios

InitSplit ==
  /\ IdleMem
  /\ pc = "call"
  /\ image_path \in PathKinds
  /\ \E c \in (IF image_path = "image" THEN SplitCalls ELSE SplitScenarios) :
        /\ orig_w = (IF image_path = "image" THEN c.w ELSE 0)
        /\ orig_h = (IF image_path = "image" THEN c.h ELSE 0)
        /\ max_side_len = c.m
        /\ patch_size = c.p
        /\ resize_to_max = c.r
  /\ resampler_ok = TRUE
  /\ new_h = 0
  /\ new_w = 0
  /\ multi_image_data = NullMultiImageData
  /\ rgb = NoRaster
  /\ IdleNorm
  /\ IdleFixed
  /\ IdleText

NextSplit == PreprocessImageWithSplitting

SpecSplit == InitSplit /\ [][NextSplit]_vars

\* the same calls, restricted to configurations in which max_side_len is a
\* positive multiple of patch_size
InitSplitAligned == InitSplit /\ max_side_len % patch_size = 0

SpecSplitAligned == InitSplitAligned /\ [][NextSplit]_vars


(***************************************************************************)
(* Properties of the geometry planner and the patch extractor.             *)
(***************************************************************************)
\* a call on a decodable image has returned
SplitDone == pc = "done" /\ image_path = "image"

\* long and short side of the source, and of the plan in the same orientation
OrigLong  == Max(orig_w, orig_h)
OrigShort == Min(orig_w, orig_h)
PlanLong  == IF orig_w >= orig_h THEN new_w ELSE new_h
PlanShort == IF orig_w >= orig_h THEN new_h ELSE new_w

\* C1: for every source size >= 1x1, max_side_len >= 1, patch_size >= 1 and
\* either resize_to_max, both planned dimensions are positive multiples of
\* patch_size and the larger of them is at most max_side_len.
C1_PlanAlignedAndBounded ==
  SplitDone =>
    /\ new_h >= 1 /\ new_w >= 1
    /\ new_h % patch_size = 0
    /\ new_w % patch_size = 0
    /\ Max(new_w, new_h) <= max_side_len

RefTargetLong ==
  IF resize_to_max THEN max_side_len
  ELSE Min(max_side_len, ((OrigLong + patch_size - 1) \div patch_size) * patch_size)

RefTargetShort ==
  Max(patch_size,
      ((OrigShort * RefTargetLong + OrigLong * patch_size - 1)
          \div (OrigLong * patch_size)) * patch_size)

\* C3: the plan equals the reference planner computed in exact arithmetic:
\* long side max_side_len (forced) or min(max_side_len, ceil(long/p)*p),
\* short side max(p, ceil(short*targetLong/(long*p))*p), and the short side
\* never undershoots the scaled content.
C3_PlanEqualsReference ==
  SplitDone =>
    /\ PlanLong = RefTargetLong
    /\ PlanShort = RefTargetShort
    /\ PlanShort * OrigLong >= OrigShort * PlanLong

\* C4: orientation is preserved: a source at least as wide as high gets a
\* plan at least as wide as high, a source higher than wide a plan at least
\* as high as wide.
C4_OrientationPreserved ==
  SplitDone =>
    /\ (orig_w >= orig_h => new_w >= new_h)
    /\ (orig_h > orig_w => new_h >= new_w)

\* C5: exactly 1 tile (no global view) when the grid is 1x1, exactly
\* rows*cols + 1 tiles otherwise; the returned grid is the one used for the
\* crops; the 1000x400 image with max_side_len 896, patch_size 448 and
\* resize_to_max off gives a 1x2 grid and 3 tiles.
C5_TileCount ==
  SplitDone =>
    LET m == multi_image_data
        crops == {i \in 1..Len(m.images) : m.images[i].data.of.kind = "crop"}
    IN  /\ m.num_images = Len(m.images)
        /\ m.num_images = (IF m.grid_h = 1 /\ m.grid_w = 1 THEN 1
                           ELSE m.grid_h * m.grid_w + 1)
        /\ (m.grid_h = 1 /\ m.grid_w = 1) => m.images[1].data.of.kind = "resized"
        /\ ~(m.grid_h = 1 /\ m.grid_w = 1) =>
             { <<m.images[i].data.of.y, m.images[i].data.of.x>> : i \in crops }
               = { <<r * patch_size, c * patch_size>> :
                     r \in 0..(m.grid_h - 1), c \in 0..(m.grid_w - 1) }
        /\ (orig_w = 1000 /\ orig_h = 400 /\ max_side_len = 896
              /\ patch_size = 448 /\ ~resize_to_max)
             => (m.grid_h = 1 /\ m.grid_w = 2 /\ m.num_images = 3)

\* the 1000x400 call has returned its three tiles
C5_Witness ==
  /\ SplitDone /\ orig_w = 1000 /\ orig_h = 400
  /\ multi_image_data.num_images = 3

\* C6: when the grid is not 1x1, tile 0 is the global view (the whole canvas
\* resampled to patch_size x patch_size, not a crop) and the patch of grid
\* cell (row, col) is tile 1 + row*cols + col (row-major).
C6_RowMajorOrder ==
  (SplitDone /\ ~(multi_image_data.grid_h = 1 /\ multi_image_data.grid_w = 1)) =>
    LET m == multi_image_data
    IN  /\ m.images[1].data.of.kind = "bicubic"
        /\ m.images[1].width = patch_size /\ m.images[1].height = patch_size
        /\ \A row \in 0..(m.grid_h - 1), col \in 0..(m.grid_w - 1) :
             LET t == m.images[(1 + row * m.grid_w + col) + 1]
             IN  /\ t.data.of.kind = "crop"
                 /\ t.data.of.x = col * patch_size
                 /\ t.data.of.y = row * patch_size

\* a 2x3 grid has been split into 7 tiles
C6_Witness ==
  /\ SplitDone
  /\ multi_image_data.grid_h = 2 /\ multi_image_data.grid_w = 3
  /\ multi_image_data.num_images = 7

\* C7: every crop window (col*p, row*p, p x p) lies inside the resized
\* canvas, windows of distinct cells do not overlap, and no conversion reads
\* outside its image.
C7_CropsInsideCanvas ==
  /\ pc # "panic"
  /\ SplitDone =>
       LET m == multi_image_data
           crops == {i \in 1..Len(m.images) : m.images[i].data.of.kind = "crop"}
       IN  /\ \A i \in crops :
                LET v == m.images[i].data.of
                IN  /\ v.w = patch_size /\ v.h = patch_size
                    /\ v.x + patch_size <= new_w
                    /\ v.y + patch_size <= new_h
           /\ \A i, j \in crops :
                i # j =>
                  LET a == m.images[i].data.of
                      b == m.images[j].data.of
                  IN  \/ a.x + a.w <= b.x \/ b.x + b.w <= a.x
                      \/ a.y + a.h <= b.y \/ b.y + b.h <= a.y

\* a canvas wider than its grid (new_w not a multiple of patch_size) has
\* been cropped into several patches
C7_Witness ==
  /\ SplitDone
  /\ new_w % patch_size # 0
  /\ multi_image_data.grid_w >= 2
  /\ multi_image_data.num_images >= 3


(***************************************************************************)
(* Tensor normalisers.                                                     *)
(*   process_image_to_chw, resize_bicubic  (rust-tokenizer/src/lib.rs)     *)
(*   SmolVLMImageProcessor::preprocess     (image_processor.rs)            *)
(***************************************************************************)
IdleSplit ==
  /\ max_side_len = 0 /\ patch_size = 0 /\ resize_to_max = FALSE
  /\ resampler_ok = TRUE
  /\ new_h = 0 /\ new_w = 0 /\ multi_image_data = NullMultiImageData

F255 == FFromInt(255, F32)

\* `pixel[c] as f32 / 255.0`
ChwValue(b) == FDiv(FFromInt(b, F32), F255, F32)

ChwTable == [b \in Bytes |-> ChwValue(b)]

\* variant: rows strided by the height
ChwIdxHeightStride(c, y, x, tw, th) == c * th * tw + y * th + x

\* c * target_h * target_w + y * target_w + x
ChwIdx(c, y, x, tw, th) == c * th * tw + y * tw + x

\* (y * target_w + x) * 3 + c, the index into the interleaved dst_buffer
HwcIdx(c, y, x, tw) == (y * tw + x) * 3 + c

\* the raw interleaved (row-major, RGBRGB..) buffer of an image
RawBuffer(img) ==
  [k \in 0..(3 * img.w * img.h - 1) |->
     PixelChannel(img, (k \div 3) % img.w, (k \div 3) \div img.w, k % 3)]

\* for c in 0..channels { for y in 0..target_h { for x in 0..target_w {..}}}
LoopIterations(tw, th) == (0..2) \X (0..(th - 1)) \X (0..(tw - 1))

\* it comes no later than jt in the loop order
LoopBefore(it, jt) ==
  \/ it[1] < jt[1]
  \/ it[1] = jt[1] /\ it[2] < jt[2]
  \/ it[1] = jt[1] /\ it[2] = jt[2] /\ it[3] <= jt[3]

\* The buffer left by the loop: vec![0.0f32; total_size], then one write per
\* iteration.  Each element holds the value of the last iteration that wrote
\* it; writes counts the iterations that wrote it.  The loop panics when an
\* iteration indexes outside the buffer or reads outside its source.
ChwLoop(tw, th, idx, val, ok) ==
  LET total_size == 3 * th * tw
      its        == LoopIterations(tw, th)
      writers(i) == {it \in its : idx[it] = i}
      last(i)    == CHOOSE it \in writers(i) : \A jt \in writers(i) : LoopBefore(jt, it)
      panicked   == \E it \in its : idx[it] >= total_size \/ ~ok[it]
  IN  IF panicked
      THEN [panic |-> TRUE, data |-> << >>, writes |-> << >>]
      ELSE [panic |-> FALSE,
            data  |-> [i \in 1..total_size |->
                         IF writers(i - 1) = {} THEN FZero ELSE val[last(i - 1)]],
            writes |-> [i \in 1..total_size |-> Cardinality(writers(i - 1))]]

\* process_image_to_chw, pixel by pixel; an iteration is <<c, y, x>>
ProcessImageToChwData(img, tw, th) ==
  LET its == LoopIterations(tw, th)
      idx == [it \in its |-> ChwIdx(it[1], it[2], it[3], tw, th)]
      ok  == [it \in its |-> it[3] < img.w /\ it[2] < img.h]
      val == [it \in its |-> ChwTable[PixelChannel(img, it[3], it[2], it[1])]]
  IN  ChwLoop(tw, th, idx, val, ok)

\* the conversion loop of resize_bicubic over the resampled dst_image
ResizeBicubicData(img, tw, th) ==
  LET dst_buffer == RawBuffer(Resample(img, tw, th))
      its == LoopIterations(tw, th)
      idx == [it \in its |-> ChwIdx(it[1], it[2], it[3], tw, th)]
      ok  == [it \in its |-> HwcIdx(it[1], it[2], it[3], tw) < 3 * tw * th]
      val == [it \in its |-> ChwTable[dst_buffer[HwcIdx(it[1], it[2], it[3], tw)]]]
  IN  ChwLoop(tw, th, idx, val, ok)

ProcessImageToChw ==
  /\ pc = "call" /\ fn = "process_image_to_chw"
  /\ \E r \in {ProcessImageToChwData(rgb, target_w, target_h)} :
       IF r.panic
       THEN pc' = "panic" /\ UNCHANGED tensor
       ELSE /\ pc' = "done"
            /\ tensor' = [data |-> r.data, writes |-> r.writes,
                          width |-> target_w, height |-> target_h, channels |-> 3]
  /\ UNCHANGED <<fn, target_w, target_h, do_rescale, do_normalize>>
  /\ UNCHANGED <<image_path, orig_w, orig_h, rgb, splitVars, fixedVars, textVars>>
  /\ UNCHANGED memVars

ResizeBicubic ==
  /\ pc = "call" /\ fn = "resize_bicubic"
  /\ \E r \in {ResizeBicubicData(rgb, target_w, target_h)} :
       IF r.panic
       THEN pc' = "panic" /\ UNCHANGED tensor
       ELSE /\ pc' = "done"
            /\ tensor' = [data |-> r.data, writes |-> r.writes,
                          width |-> target_w, height |-> target_h, channels |-> 3]
  /\ UNCHANGED <<fn, target_w, target_h, do_rescale, do_normalize>>
  /\ UNCHANGED <<image_path, orig_w, orig_h, rgb, splitVars, fixedVars, textVars>>
  /\ UNCHANGED memVars

\* SmolVLMImageProcessor: rescale_factor, SMOLVLM_MEAN, SMOLVLM_STD
RESCALE_FACTOR == FDiv(FFromInt(1, F32), F255, F32)
SMOLVLM_MEAN == [c \in 0..2 |-> FDiv(FFromInt(1, F32), FFromInt(2, F32), F32)]
SMOLVLM_STD  == [c \in 0..2 |-> FDiv(FFromInt(1, F32), FFromInt(2, F32), F32)]

\* variant: normalise first, rescale second
NormalizeValueSwapped(b, c, rescale, normalize) ==
  LET v0 == FFromInt(b, F32)
      v1 == IF normalize
            THEN FDiv(FSub(v0, SMOLVLM_MEAN[c], F32), SMOLVLM_STD[c], F32)
            ELSE v0
  IN  IF rescale THEN FMul(v1, RESCALE_FACTOR, F32) ELSE v1

\* let mut value = pixel[c] as f32; rescale; normalize
NormalizeValue(b, c, rescale, normalize) ==
  LET v0 == FFromInt(b, F32)
      v1 == IF rescale THEN FMul(v0, RESCALE_FACTOR, F32) ELSE v0
  IN  IF normalize
      THEN FDiv(FSub(v1, SMOLVLM_MEAN[c], F32), SMOLVLM_STD[c], F32)
      ELSE v1

NormTable ==
  [r \in BOOLEAN |-> [n \in BOOLEAN |-> [c \in 0..2 |-> [b \in Bytes |->
     NormalizeValue(b, c, r, n)]]]]

\* the three loops of preprocess over one resized patch of side patch:
\* result[[0, patch_idx, c, y, x]] = value
PatchTensor(rgb_patch, patch, rescale, normalize) ==
  [it \in LoopIterations(patch, patch) |->
     NormTable[rescale][normalize][it[1]][PixelChannel(rgb_patch, it[3], it[2], it[1])]]

\* one patch of SmolVLMImageProcessor::preprocess: the patch is resized to
\* the fixed patch size (384 in the code, target_w here) and converted
PreprocessPatch ==
  /\ pc = "call" /\ fn = "preprocess"
  /\ \E rgb_patch \in {Resample(rgb, target_w, target_w)} :
       tensor' = [data |-> PatchTensor(rgb_patch, target_w, do_rescale, do_normalize),
                  writes |-> << >>,
                  width |-> target_w, height |-> target_w, channels |-> 3]
  /\ pc' = "done"
  /\ UNCHANGED <<fn, target_w, target_h, do_rescale, do_normalize>>
  /\ UNCHANGED <<image_path, orig_w, orig_h, rgb, splitVars, fixedVars, textVars>>
  /\ UNCHANGED memVars

\* the conversions and their arguments
NormCalls ==
  [f : {"process_image_to_chw"}, w : 1..MaxTile, h : 1..MaxTile,
   tw : 1..MaxTile, th : 1..MaxTile, r : {FALSE}, n : {FALSE}]
  \cup
  [f : {"resize_bicubic"}, w : 1..MaxTile, h : 1..MaxTile,
   tw : 1..MaxTile, th : 1..MaxTile, r : {FALSE}, n : {FALSE}]
  \cup
  [f : {"preprocess"}, w : 1..MaxTile, h : 1..MaxTile,
   tw : 1..MaxTile, th : {0}, r : BOOLEAN, n : BOOLEAN]

InitNorm ==
  /\ IdleMem
  /\ pc = "call"
  /\ \E c \in NormCalls, seed \in Bytes :
        \* process_image_to_chw is called on images at least as large as
        \* the target (the canvas of a 1x1 grid, a crop of patch size)
        /\ c.f = "process_image_to_chw" => (c.tw <= c.w /\ c.th <= c.h)
        /\ fn = c.f
        /\ rgb = Raster(c.w, c.h, seed)
        /\ target_w = c.tw
        /\ target_h = c.th
        /\ do_rescale = c.r
        /\ do_normalize = c.n
  /\ tensor = NoTensor
  /\ image_path = "image" /\ orig_w = rgb.w /\ orig_h = rgb.h
  /\ IdleSplit
  /\ IdleFixed
  /\ IdleText

NextNorm == ProcessImageToChw \/ ResizeBicubic \/ PreprocessPatch

SpecNorm == InitNorm /\ [][NextNorm]_vars


(***************************************************************************)
(* Properties of the tensor normalisers.                                   *)
(***************************************************************************)
FOne == FFromInt(1, F32)

\* the integer n as an f32 (|n| < 2^24)
FInt(n) == IF n >= 0 THEN FFromInt(n, F32) ELSE FNeg(FFromInt(0 - n, F32))

FInRange(v, lo, hi) == FLeq(FInt(lo), v) /\ FLeq(v, FInt(hi))

NormDone(f) == pc = "done" /\ fn = f

\* C8: for every channel byte the normalised value lies in [0,1] with
\* rescale only (process_image_to_chw, resize_bicubic, and preprocess with
\* do_normalize off) and in [-1,1] with rescale and normalize at
\* mean = std = 0.5 (bytes 0 and 255 giving exactly -1 and 1); rescale comes
\* before normalize, and a step whose flag is off is skipped: normalize
\* alone gives (b - 0.5)/0.5 = 2b - 1 and neither flag gives b.
C8_NormalizerRange ==
  /\ NormDone("preprocess") =>
       \A it \in DOMAIN tensor.data :
          LET v == tensor.data[it]
              b == PixelChannel(Resample(rgb, target_w, target_w), it[3], it[2], it[1])
          IN  /\ (do_rescale /\ ~do_normalize) => FInRange(v, 0, 1)
              /\ (do_rescale /\ do_normalize) =>
                   /\ FInRange(v, -1, 1)
                   /\ b = 0 => v = FInt(-1)
                   /\ b = 255 => v = FInt(1)
              /\ (~do_rescale /\ do_normalize) => v = FInt(2 * b - 1)
              /\ (~do_rescale /\ ~do_normalize) => v = FInt(b)
  /\ (NormDone("process_image_to_chw") \/ NormDone("resize_bicubic")) =>
       \A i \in DOMAIN tensor.data : FInRange(tensor.data[i], 0, 1)

\* byte 255 has been rescaled and normalised to exactly 1
C8_Witness ==
  /\ NormDone("preprocess") /\ do_rescale /\ do_normalize
  /\ \E it \in DOMAIN tensor.data :
        /\ PixelChannel(Resample(rgb, target_w, target_w), it[3], it[2], it[1]) = 255
        /\ tensor.data[it] = FOne

\* the image whose pixels a conversion reads
ConvertedImage ==
  IF fn = "resize_bicubic" THEN Resample(rgb, target_w, target_h) ELSE rgb

\* C9: the buffer is channel-major: it has exactly 3*H*W elements, the
\* element at flat index c*H*W + y*W + x is the value of channel c of the
\* pixel at (x, y) (times 255 it is that byte again), every index is written
\* exactly once, and no write or read falls outside its buffer.
C9_ChannelMajorLayout ==
  /\ (fn \in {"process_image_to_chw", "resize_bicubic"}) => pc # "panic"
  /\ (NormDone("process_image_to_chw") \/ NormDone("resize_bicubic")) =>
       /\ Len(tensor.data) = 3 * target_h * target_w
       /\ tensor.width = target_w /\ tensor.height = target_h /\ tensor.channels = 3
       /\ \A i \in 1..Len(tensor.data) : tensor.writes[i] = 1
       /\ \A c \in 0..2, y \in 0..(target_h - 1), x \in 0..(target_w - 1) :
            FMul(tensor.data[c * target_h * target_w + y * target_w + x + 1], F255, F32)
              = FInt(PixelChannel(ConvertedImage, x, y, c))

\* a non-square target has been converted
C9_Witness ==
  /\ NormDone("process_image_to_chw")
  /\ target_w # target_h /\ target_w >= 2
  /\ Len(tensor.data) = 3 * target_h * target_w


(***************************************************************************)
(* nanovlm_preprocess_image (rust-tokenizer/src/lib.rs)                    *)
(***************************************************************************)
\* variant: DynamicImage::resize, which keeps the aspect ratio and fits the
\* image into nwidth x nheight
FixedResizeKeepAspect(img, nwidth, nheight) ==
  IF img.w * nheight >= img.h * nwidth
  THEN Resample(img, nwidth, Max((2 * img.h * nwidth + img.w) \div (2 * img.w), 1))
  ELSE Resample(img, Max((2 * img.w * nheight + img.h) \div (2 * img.h), 1), nheight)

\* img.resize_exact(target_size, target_size, CatmullRom)
FixedResize(img, nwidth, nheight) == Resample(img, nwidth, nheight)

\* the conversion loop of nanovlm_preprocess_image over the resized image
PreprocessImageData(resized, size) ==
  LET its == LoopIterations(size, size)
      idx == [it \in its |-> it[1] * size * size + it[2] * size + it[3]]
      ok  == [it \in its |-> it[3] < resized.w /\ it[2] < resized.h]
      val == [it \in its |-> ChwTable[PixelChannel(resized, it[3], it[2], it[1])]]
  IN  ChwLoop(size, size, idx, val, ok)

PreprocessImage ==
  /\ pc = "call" /\ fn = "nanovlm_preprocess_image"
  /\ IF image_path # "image"
     THEN pc' = "done" /\ image_data' = NullImageData
     ELSE \E resized \in {FixedResize(rgb, target_size, target_size)} :
          \E r \in {PreprocessImageData(resized, target_size)} :
             IF r.panic
             THEN pc' = "panic" /\ UNCHANGED image_data
             ELSE /\ pc' = "done"
                  /\ image_data' = [data |-> r.data, null |-> FALSE,
                                    width |-> target_size, height |-> target_size,
                                    channels |-> 3]
  /\ heap' = IF pc' = "done" THEN heap \cup ImageDataBuffers(image_data') ELSE heap
  /\ UNCHANGED <<image_path, orig_w, orig_h, rgb, target_size, splitVars, textVars,
                 faulted>>
  /\ UNCHANGED <<fn, target_w, target_h, do_rescale, do_normalize, tensor>>

InitFixed ==
  /\ IdleMem
  /\ pc = "call"
  /\ fn = "nanovlm_preprocess_image"
  /\ image_path \in PathKinds
  /\ target_size \in 1..MaxTarget
  /\ IF image_path = "image"
     THEN \E w \in 1..MaxDim, h \in 1..MaxDim, seed \in Bytes :
             rgb = Raster(w, h, seed) /\ orig_w = w /\ orig_h = h
     ELSE rgb = NoRaster /\ orig_w = 0 /\ orig_h = 0
  /\ image_data = NullImageData
  /\ target_w = 0 /\ target_h = 0
  /\ do_rescale = FALSE /\ do_normalize = FALSE /\ tensor = NoTensor
  /\ IdleSplit
  /\ IdleText

NextFixed == PreprocessImage

SpecFixed == InitFixed /\ [][NextFixed]_vars

\* C10: every nanovlm_preprocess_image call on a decodable image, whatever
\* the source dimensions, returns a single square tile: width and height
\* equal to target_size, 3 channels and a non-null buffer of exactly
\* 3 * target_size * target_size values.
C10_FixedSquareTile ==
  /\ fn = "nanovlm_preprocess_image" => pc # "panic"
  /\ (pc = "done" /\ fn = "nanovlm_preprocess_image" /\ image_path = "image") =>
       /\ ~image_data.null
       /\ image_data.width = target_size
       /\ image_data.height = target_size
       /\ image_data.channels = 3
       /\ Len(image_data.data) = 3 * target_size * target_size

\* a non-square source has been prepared as a 2x2 tile
C10_Witness ==
  /\ pc = "done" /\ fn = "nanovlm_preprocess_image" /\ image_path = "image"
  /\ orig_w # orig_h
  /\ target_size = 2
  /\ Len(image_data.data) = 12


(***************************************************************************)
(* Tokenizer Vocabulary Extension and Prompt Token Aligner                 *)
(*   nanovlm_load_tokenizer, nanovlm_tokenize (rust-tokenizer/src/lib.rs)  *)
(*                                                                         *)
(* A string is a sequence of lexemes: a lexeme is either the literal of a  *)
(* token that may be in the added vocabulary or a plain piece of text.     *)
(* The tokenizers library is modelled by what it does to such strings:     *)
(* literals of the added vocabulary are cut out first and become one id    *)
(* each, the plain text between them goes through the model, which merges  *)
(* the pair "a" "b" into one token, so token indices are not lexeme        *)
(* indices.                                                                *)
(***************************************************************************)
\* the vocabulary of the model in the tokenizer file; the id of a token is
\* its index minus one, id 0 stands for text the model does not know
ModelVocab == <<"<unk>", "a", "b", "ab", "\n", "User:", "Assistant:">>

ModelId(lexeme) ==
  IF \E i \in 1..Len(ModelVocab) : ModelVocab[i] = lexeme
  THEN (CHOOSE i \in 1..Len(ModelVocab) : ModelVocab[i] = lexeme) - 1
  ELSE 0

\* Tokenizer::from_file on a file whose added vocabulary is `added`, a
\* sequence of entries [content, id] in the order they were added
TokenizerFromFile(added) ==
  [vocab_size |-> Len(ModelVocab), added |-> added, registrations |-> 0]

\* the contents and the ids of the added vocabulary
AddedContents(tk) == {tk.added[i].content : i \in DOMAIN tk.added}

AddedIds(tk) == {tk.added[i].id : i \in DOMAIN tk.added}

AddedId(tk, content) ==
  tk.added[CHOOSE i \in DOMAIN tk.added : tk.added[i].content = content].id

InVocab(tk, content) ==
  \/ content \in AddedContents(tk)
  \/ \E i \in 2..Len(ModelVocab) : ModelVocab[i] = content

\* Tokenizer::token_to_id, defined when InVocab
TokenToId(tk, content) ==
  IF content \in AddedContents(tk) THEN AddedId(tk, content) ELSE ModelId(content)

\* the id given to the next token that is new to the vocabulary
NextTokenId(tk) ==
  LET ids == AddedIds(tk)
      top == CHOOSE m \in ids : \A i \in ids : i <= m
  IN  IF ids = {} THEN tk.vocab_size
      ELSE IF top >= tk.vocab_size THEN top + 1
      ELSE tk.vocab_size

\* variant: tokens the added vocabulary already holds are registered again
\* and given fresh ids
AddSpecialTokensAlwaysNew(tk, tokens) ==
  LET fresh == {k \in 1..Len(tokens) : tokens[k] # ""}
      entry(k) == [content |-> tokens[k],
                   id |-> NextTokenId(tk) + Cardinality({j \in fresh : j < k})]
      kept == SelectSeq(tk.added,
                        LAMBDA e : \A k \in fresh : tokens[k] # e.content)
  IN  [vocab_size |-> tk.vocab_size,
       added |-> kept \o [i \in 1..Len(tokens) |-> entry(i)],
       registrations |-> tk.registrations + 1]

\* tokenizer.add_special_tokens(&special_tokens): the tokens are taken one
\* after the other; an empty token or one already in the added vocabulary
\* is ignored, a token of the model vocabulary keeps its id, and every other
\* token gets the next id, which is one more than the highest added id (the
\* vocabulary size when that is larger)
AddSpecialTokens(tk, tokens) ==
  LET fresh == {k \in 1..Len(tokens) :
                  /\ tokens[k] # ""
                  /\ tokens[k] \notin AddedContents(tk)
                  /\ \A j \in 1..(k - 1) : tokens[j] # tokens[k]}
      new(k) == k \in fresh /\ ~InVocab(tk, tokens[k])
      entry(k) == [content |-> tokens[k],
                   fresh |-> k \in fresh,
                   id |-> IF new(k)
                          THEN NextTokenId(tk) + Cardinality({j \in fresh : j < k /\ new(j)})
                          ELSE TokenToId(tk, tokens[k])]
      pushed == SelectSeq([k \in 1..Len(tokens) |-> entry(k)], LAMBDA e : e.fresh)
  IN  [vocab_size |-> tk.vocab_size,
       added |-> tk.added \o [i \in 1..Len(pushed) |->
                                [content |-> pushed[i].content, id |-> pushed[i].id]],
       registrations |-> tk.registrations + 1]

\* format!("<row_{}_col_{}>", row, col)
RowColToken(row, col) == "<row_" \o ToString(row) \o "_col_" \o ToString(col) \o ">"

GlobalImageToken == "<|global_image|>"

\* variant: the markers pushed column by column
SpecialTokensColMajor(img_token) ==
  <<img_token, GlobalImageToken>> \o
  [k \in 1..64 |-> RowColToken(((k - 1) % 8) + 1, ((k - 1) \div 8) + 1)]

\* the special_tokens vector: the image token, the global image token, then
\* for row in 1..=8 { for col in 1..=8 { push } }
SpecialTokens(img_token) ==
  <<img_token, GlobalImageToken>> \o
  [k \in 1..64 |-> RowColToken(((k - 1) \div 8) + 1, ((k - 1) % 8) + 1)]


\* Tokenizer::encode(input, false) for an input the tokenizer accepts: the
\* literals of the added vocabulary become their ids; in the plain text
\* between them the model merges "a" "b" into the token "ab" and gives every
\* other lexeme its own id
Encode(tk, input) ==
  LET n == Len(input)
      plain(i) == input[i] \notin AddedContents(tk)
      merged(i) == i > 1 /\ input[i] = "b" /\ plain(i) /\ input[i - 1] = "a" /\ plain(i - 1)
      id(i) == IF ~plain(i) THEN AddedId(tk, input[i])
               ELSE IF i < n /\ merged(i + 1) THEN ModelId("ab")
               ELSE ModelId(input[i])
      cells == [i \in 1..n |-> [keep |-> ~merged(i), id |-> id(i)]]
      kept == SelectSeq(cells, LAMBDA c : c.keep)
  IN  [i \in 1..Len(kept) |-> kept[i].id]

\* image_token.repeat(image_token_length)
Repeat(lexeme, count) == [i \in 1..count |-> lexeme]

\* format!("{}{}", image_tokens_repeated, prompt)
FullPrompt(img_token, count, prompt) == Repeat(img_token, count) \o prompt

\* variant: the position of every token of the added vocabulary is pushed
ImagePositionsAllAdded(token_ids, image_id) ==
  SelectSeq([i \in 1..Len(token_ids) |-> i - 1],
            LAMBDA idx : token_ids[idx + 1] >= image_id)

\* for (idx, &token_id) in token_ids.iter().enumerate() {
\*     if token_id == image_token_id { image_positions.push(idx) } }
ImagePositions(token_ids, image_id) ==
  SelectSeq([i \in 1..Len(token_ids) |-> i - 1],
            LAMBDA idx : token_ids[idx + 1] = image_id)

\* the tokenizer_path argument: a null pointer, bytes that are not UTF-8, a
\* file Tokenizer::from_file rejects, a tokenizer file
TokenizerPathKinds == {"null", "not_utf8", "unloadable", "file"}

\* the image_token argument: a null pointer, bytes that are not UTF-8, the
\* empty string, or the literal of the image token
ImageTokenLiterals == {"<|image|>", "<image>"}

ImageTokenArgs == {"null", "not_utf8", ""} \cup ImageTokenLiterals

\* the added vocabulary of the tokenizer files loaded: none; a chat marker
\* and "<image>"; the whole special-token table of "<|image|>", as left in
\* the file by an earlier registration
BaseAdded ==
  { << >>,
    << [content |-> "<|im_start|>", id |-> Len(ModelVocab)],
       [content |-> "<image>", id |-> Len(ModelVocab) + 1] >>,
    AddSpecialTokens(TokenizerFromFile(<< >>), SpecialTokens("<|image|>")).added }

\* the lexemes of the text argument
TextLexemes == {"a", "b", "<|image|>", GlobalImageToken, RowColToken(1, 2)}

RECURSIVE LexemeSeqs(_)
LexemeSeqs(len) ==
  IF len = 0 THEN {<< >>}
  ELSE LexemeSeqs(len - 1) \cup
       {Append(p, x) : p \in {q \in LexemeSeqs(len - 1) : Len(q) = len - 1},
                       x \in TextLexemes}

\* the text argument: a null pointer, bytes that are not UTF-8, or a string
TextArgs ==
  {[kind |-> "null", s |-> << >>], [kind |-> "not_utf8", s |-> << >>]} \cup
  {[kind |-> "utf8", s |-> q] : q \in LexemeSeqs(MaxText)}

NoText == [kind |-> "null", s |-> << >>]

LoadTokenizer ==
  /\ pc = "call" /\ fn = "nanovlm_load_tokenizer"
  /\ IF tokenizer_path = "null" \/ image_token = "null"
     THEN handle' = NullHandle
     ELSE IF tokenizer_path = "not_utf8" \/ image_token = "not_utf8"
     THEN handle' = NullHandle
     ELSE IF tokenizer_path = "unloadable"
     THEN handle' = NullHandle
     ELSE \E tokenizer \in {AddSpecialTokens(base, SpecialTokens(image_token))} :
            IF ~InVocab(tokenizer, image_token)
            THEN handle' = NullHandle
            ELSE handle' = [null |-> FALSE, tokenizer |-> tokenizer,
                            image_token_id |-> TokenToId(tokenizer, image_token),
                            image_token |-> image_token]
  /\ pc' = "loaded"
  /\ heap' = heap \cup HandleBuffers(handle')
  /\ UNCHANGED <<tokenizer_path, image_token, base, text, image_token_length,
                 encode_ok, tok_result, ids_arg, decode_ok, decoded, smolVars, faulted>>
  /\ UNCHANGED <<image_path, orig_w, orig_h, rgb, splitVars, normVars, fixedVars>>

\* variant: the Err arm of tokenizer.encode is not taken
TokenizeFailsEncodeIgnored(h, t, ok) ==
  \/ h.null \/ t.kind = "null"
  \/ t.kind = "not_utf8"

\* the early returns of nanovlm_tokenize: a null handle or text, text that is
\* not UTF-8, a prompt the tokenizer rejects
TokenizeFails(h, t, ok) ==
  \/ h.null \/ t.kind = "null"
  \/ t.kind = "not_utf8"
  \/ ~ok

Tokenize ==
  /\ pc = "loaded" /\ fn = "nanovlm_load_tokenizer"
  /\ \E t \in TextArgs, count \in 0..MaxRepeat, ok \in BOOLEAN :
       /\ text' = t /\ image_token_length' = count /\ encode_ok' = ok
       /\ IF TokenizeFails(handle, t, ok)
          THEN tok_result' = NullTokenizationResult
          ELSE \E token_ids \in {Encode(handle.tokenizer,
                                        FullPrompt(handle.image_token, count, t.s))} :
               \E image_positions \in {ImagePositions(token_ids, handle.image_token_id)} :
                  tok_result' = [null |-> FALSE,
                                 token_ids |-> token_ids,
                                 num_tokens |-> Len(token_ids),
                                 image_token_positions |-> image_positions,
                                 num_image_tokens |-> Len(image_positions)]
  /\ pc' = "done"
  /\ heap' = heap \cup TokenizationBuffers(tok_result')
  /\ UNCHANGED <<tokenizer_path, image_token, base, handle, fn, smolVars, faulted>>
  /\ UNCHANGED <<ids_arg, decode_ok, decoded>>
  /\ UNCHANGED <<image_path, orig_w, orig_h, rgb, splitVars, fixedVars>>
  /\ UNCHANGED <<target_w, target_h, do_rescale, do_normalize, tensor>>

InitTok ==
  /\ IdleMem
  /\ pc = "call"
  /\ fn = "nanovlm_load_tokenizer"
  /\ tokenizer_path \in TokenizerPathKinds
  /\ image_token \in ImageTokenArgs
  /\ IF tokenizer_path = "file"
     THEN \E added \in BaseAdded : base = TokenizerFromFile(added)
     ELSE base = NoTokenizer
  /\ handle = NullHandle
  /\ text = NoText /\ image_token_length = 0 /\ encode_ok = FALSE
  /\ tok_result = NullTokenizationResult
  /\ IdleDecode
  /\ IdleSmol
  /\ image_path = "null" /\ orig_w = 0 /\ orig_h = 0 /\ rgb = NoRaster
  /\ target_w = 0 /\ target_h = 0
  /\ do_rescale = FALSE /\ do_normalize = FALSE /\ tensor = NoTensor
  /\ IdleSplit
  /\ IdleFixed

NextTok == LoadTokenizer \/ Tokenize

SpecTok == InitTok /\ [][NextTok]_vars

TokDone == pc = "done" /\ fn = "nanovlm_load_tokenizer"


(***************************************************************************)
(* Properties of the tokenizer operations.                                 *)
(***************************************************************************)
TokReturned == TokDone /\ ~tok_result.null

\* C11: fixed policy: for every text and every repeat count N, a successful
\* nanovlm_tokenize returns the tokens of the image token repeated N times
\* followed by the text, and num_image_tokens is exactly N.
C11_FixedPolicyCount ==
  TokReturned =>
    /\ tok_result.token_ids =
         Encode(handle.tokenizer,
                [i \in 1..(image_token_length + Len(text.s)) |->
                   IF i <= image_token_length THEN handle.image_token
                   ELSE text.s[i - image_token_length]])
    /\ tok_result.num_image_tokens = image_token_length

\* the ids of the marker tokens (global image, row/col) of a tokenizer
MarkerIds(tk) ==
  {tk.added[i].id : i \in {j \in DOMAIN tk.added :
      \/ tk.added[j].content = "<|global_image|>"
      \/ \E r \in 1..8, c \in 1..8 : tk.added[j].content = RowColToken(r, c)}}

\* C13: image_token_positions is strictly ascending; every listed index is
\* below num_tokens and holds image_token_id; every index holding
\* image_token_id is listed; the position of a marker token is never listed.
C13_PositionsExact ==
  TokReturned =>
    LET p   == tok_result.image_token_positions
        ids == tok_result.token_ids
    IN  /\ tok_result.num_tokens = Len(ids)
        /\ tok_result.num_image_tokens = Len(p)
        /\ \A i \in 1..(Len(p) - 1) : p[i] < p[i + 1]
        /\ \A i \in 1..Len(p) :
             p[i] >= 0 /\ p[i] < tok_result.num_tokens
             /\ ids[p[i] + 1] = handle.image_token_id
        /\ \A j \in 0..(Len(ids) - 1) :
             ids[j + 1] = handle.image_token_id => \E i \in 1..Len(p) : p[i] = j
        /\ \A j \in 0..(Len(ids) - 1) :
             ids[j + 1] \in MarkerIds(handle.tokenizer) => \A i \in 1..Len(p) : p[i] # j

\* a marker between two image tokens: positions 0 and 2 are listed, 1 is not
C13_Witness ==
  /\ TokReturned
  /\ Len(tok_result.token_ids) = 3
  /\ tok_result.token_ids[2] \in MarkerIds(handle.tokenizer)
  /\ tok_result.image_token_positions = <<0, 2>>

\* the occurrences of the image token id in the returned token sequence
PlaceholderCount ==
  Cardinality({i \in DOMAIN tok_result.token_ids :
                 tok_result.token_ids[i] = handle.image_token_id})

\* C14: when the number of image token positions in the token sequence
\* differs from the expected placeholder count, the operation reports a
\* failure: no call completes successfully with a differing count.
C14_MismatchFails ==
  (TokDone /\ PlaceholderCount # image_token_length) => tok_result.null

\* a tokenizer has been loaded and the special tokens registered
TokLoaded == pc \in {"loaded", "done"} /\ fn = "nanovlm_load_tokenizer" /\ ~handle.null

\* position k of the special-token table: the image token, the global image
\* token, then the row/col markers row by row
TableEntry(k) ==
  IF k = 1 THEN image_token
  ELSE IF k = 2 THEN "<|global_image|>"
  ELSE RowColToken(((k - 3) \div 8) + 1, ((k - 3) % 8) + 1)

\* C17: the special tokens are registered once per loaded tokenizer, in the
\* order image token, <|global_image|>, <row_r_col_c> for r = 1..8 and
\* within r, c = 1..8 (66 entries): every entry is in the vocabulary, an
\* entry the file already held keeps its id, and the k-th entry new to the
\* file gets the k-th id after the file's highest, so the ids are fixed by
\* the base vocabulary and the image token.
C17_RegistrationOrder ==
  TokLoaded =>
    LET tk == handle.tokenizer
        isNew(k) == TableEntry(k) \notin AddedContents(base)
                      /\ \A i \in 2..Len(ModelVocab) : ModelVocab[i] # TableEntry(k)
    IN  /\ tk.registrations = 1
        /\ handle.image_token = image_token
        /\ handle.image_token_id = TokenToId(tk, image_token)
        /\ \A k \in 1..66 :
             /\ TableEntry(k) \in AddedContents(tk)
             /\ isNew(k) =>
                  AddedId(tk, TableEntry(k)) =
                    NextTokenId(base) + Cardinality({j \in 1..(k - 1) : isNew(j)})
             /\ TableEntry(k) \in AddedContents(base) =>
                  AddedId(tk, TableEntry(k)) = AddedId(base, TableEntry(k))
        /\ Len(tk.added) = Len(base.added) + Cardinality({k \in 1..66 : isNew(k)})

\* a file without any of the tokens: 66 new ids, <row_8_col_8> the last
C17_Witness ==
  /\ TokLoaded
  /\ base.added = << >>
  /\ Len(handle.tokenizer.added) = 66
  /\ handle.image_token_id = Len(ModelVocab)
  /\ AddedId(handle.tokenizer, "<row_8_col_8>") = Len(ModelVocab) + 65

\* the file already holds the whole table of the image token loaded
HoldsTable == \A k \in 1..66 : TableEntry(k) \in AddedContents(base)

FRoundToInt(x) ==
  IF x.m = << >> \/ x.neg THEN 0
  ELSE IF x.e >= 0 THEN BigToInt(BigShl(x.m, x.e))
  ELSE IF Len(x.m) < 0 - x.e THEN 0
  ELSE BigToInt(SubSeq(x.m, 1, Len(x.m) + x.e)) + x.m[Len(x.m) + x.e + 1]

\* size["longest_edge"] and max_image_size["longest_edge"] of the default
\* SmolVLMImageProcessor
size_longest_edge == 2048
max_edge == 512

resize_output_size_rescale_to_max_len(height, width, max_len) ==
  LET max_original_size == Max(height, width)
      ratio == FDiv(FFromInt(max_len, F32), FFromInt(max_original_size, F32), F32)
  IN  [height |-> FRoundToInt(FMul(FFromInt(height, F32), ratio, F32)),
       width  |-> FRoundToInt(FMul(FFromInt(width, F32), ratio, F32))]

rescale_size(height, width, max_size) ==
  IF Max(height, width) <= max_size THEN [height |-> height, width |-> width]
  ELSE resize_output_size_rescale_to_max_len(height, width, max_size)

\* the crops of split_image, in the order pushed: for y in (0..height)
\* .step_by(512) { for x in (0..width).step_by(512) { .. } }
split_image(width, height) ==
  IF width <= max_edge /\ height <= max_edge
  THEN <<[x |-> 0, y |-> 0, width |-> width, height |-> height]>>
  ELSE LET nx == (width + max_edge - 1) \div max_edge
           ny == (height + max_edge - 1) \div max_edge
           crop(k) ==
             LET x == ((k - 1) % nx) * max_edge
                 y == ((k - 1) \div nx) * max_edge
             IN  [x |-> x, y |-> y,
                  width |-> Min(max_edge, width - x),
                  height |-> Min(max_edge, height - y)]
       IN  SelectSeq([k \in 1..(nx * ny) |-> crop(k)],
                     LAMBDA c : c.width > 0 /\ c.height > 0)

\* the patches of SmolVLMImageProcessor::preprocess for a width x height
\* image: resized to rescale_size, then split
PreprocessTiles(width, height) ==
  LET target == rescale_size(height, width, size_longest_edge)
  IN  split_image(target.width, target.height)

SmolImageToken == "<image>"
FakeToken == "<fake_token_around_image>"
GlobalImgToken == "<global-img>"

image_rows == 4
image_cols == 4
image_seq_len == 64

\* variant: the marker names the column first
CellStrColFirst(n_h, n_w) ==
  <<FakeToken, RowColToken(n_w + 1, n_h + 1)>> \o Repeat(SmolImageToken, image_seq_len)

\* format!("<fake_token_around_image><row_{}_col_{}>{}", n_h + 1, n_w + 1,
\*         image_token.repeat(image_seq_len))
CellStr(n_h, n_w) ==
  <<FakeToken, RowColToken(n_h + 1, n_w + 1)>> \o Repeat(SmolImageToken, image_seq_len)

\* for n_w in 0..count { push_str(cell) }
RECURSIVE RowCells(_, _)
RowCells(n_h, count) ==
  IF count = 0 THEN << >>
  ELSE RowCells(n_h, count - 1) \o CellStr(n_h, count - 1)

\* for n_h in 0..count { the cells of the row; push('\n') }
RECURSIVE GridRows(_)
GridRows(count) ==
  IF count = 0 THEN << >>
  ELSE GridRows(count - 1) \o RowCells(count - 1, image_cols) \o <<"\n">>

ImagePromptStr ==
  GridRows(image_rows)
    \o <<"\n", FakeToken, GlobalImgToken>> \o Repeat(SmolImageToken, image_seq_len)
    \o <<FakeToken>>

\* format!("<|im_start|>User:{}\n{}<end_of_utterance>\nAssistant:",
\*         image_prompt_str, prompt)
ExpandedPrompt(prompt) ==
  <<"<|im_start|>", "User:">> \o ImagePromptStr \o <<"\n">> \o prompt
    \o <<"<end_of_utterance>", "\n", "Assistant:">>

\* the added vocabulary of the SmolVLM tokenizer file: the chat markers, the
\* image markers and the row/col markers of the 4x4 grid
SmolVLMAdded ==
  LET contents == <<"<|im_start|>", "<end_of_utterance>", FakeToken,
                    GlobalImgToken, SmolImageToken>> \o
                  [k \in 1..16 |-> RowColToken(((k - 1) \div 4) + 1, ((k - 1) % 4) + 1)]
  IN  [i \in 1..Len(contents) |-> [content |-> contents[i],
                                   id |-> Len(ModelVocab) + i - 1]]

\* the file at tokenizer_path: not a tokenizer, the SmolVLM tokenizer, a
\* tokenizer without the image token
SmolTokenizerFiles ==
  { [loadable |-> FALSE, added |-> << >>],
    [loadable |-> TRUE, added |-> SmolVLMAdded],
    [loadable |-> TRUE, added |-> << >>] }

\* the `?` of load_models after the tokenizer that takes the error exit
LoadStages == {"none", "session_builder", "vision_encoder", "embed_tokens", "decoder"}

\* variant: the tokenizer is stored as soon as it is loaded
LoadModelsTokenizerFirst ==
  /\ pc = "call" /\ fn = "smolvlm" /\ calls < MaxCalls
  /\ \E file \in SmolTokenizerFiles, failed \in LoadStages :
       IF ~file.loadable
       THEN /\ ret' = "err"
            /\ UNCHANGED processor
       ELSE IF failed # "none"
       THEN /\ ret' = "err"
            /\ processor' = [processor EXCEPT
                 !.tokenizer = [some |-> TRUE, tk |-> TokenizerFromFile(file.added)]]
       ELSE /\ ret' = "true"
            /\ processor' = [processor EXCEPT
                 !.vision_session = TRUE,
                 !.embed_session = TRUE,
                 !.decoder_session = TRUE,
                 !.tokenizer = [some |-> TRUE, tk |-> TokenizerFromFile(file.added)],
                 !.initialized = TRUE]
  /\ op' = "load_models" /\ calls' = calls + 1
  /\ sessions_run' = {}
  /\ UNCHANGED <<buf_width, buf_height, num_patches, user_prompt, full_prompt,
                 input_ids, feature_idx, input_embeds, rescaleVars, bridgeVars>>
  /\ UNCHANGED <<pc, image_path, orig_w, orig_h, rgb, splitVars, normVars,
                 fixedVars, tokVars>>
  /\ UNCHANGED memVars

LoadModels ==
  /\ pc = "call" /\ fn = "smolvlm" /\ calls < MaxCalls
  /\ \E file \in SmolTokenizerFiles, failed \in LoadStages :
       IF ~file.loadable \/ failed # "none"
       THEN /\ ret' = "err"
            /\ UNCHANGED processor
       ELSE /\ ret' = "true"
            /\ processor' = [processor EXCEPT
                 !.vision_session = TRUE,
                 !.embed_session = TRUE,
                 !.decoder_session = TRUE,
                 !.tokenizer = [some |-> TRUE, tk |-> TokenizerFromFile(file.added)],
                 !.initialized = TRUE]
  /\ op' = "load_models" /\ calls' = calls + 1
  /\ sessions_run' = {}
  /\ UNCHANGED <<buf_width, buf_height, num_patches, user_prompt, full_prompt,
                 input_ids, feature_idx, input_embeds, rescaleVars, bridgeVars>>
  /\ UNCHANGED <<pc, image_path, orig_w, orig_h, rgb, splitVars, normVars,
                 fixedVars, tokVars>>
  /\ UNCHANGED memVars

\* the images given to process_image_from_buffer
BufferSizes ==
  { [width |-> 384,  height |-> 384],
    [width |-> 1024, height |-> 512],
    [width |-> 1024, height |-> 1024],
    [width |-> 1536, height |-> 1024],
    [width |-> 2048, height |-> 2048],
    [width |-> 4096, height |-> 2731],
    [width |-> 2731, height |-> 4096],
    [width |-> 4096, height |-> 4096] }

\* what the vision encoder does with the tiles
VisionOutcomes == {"run_failed", "no_outputs", "extract_failed", "ok"}

\* seq_len = total_len / last_dim of the encoder output: a row for every
\* placeholder of the tiles, or of the whole 4x4 grid and the global view
EncoderRows(tiles) ==
  {tiles * image_seq_len, (image_rows * image_cols + 1) * image_seq_len}

ProcessImageFromBuffer ==
  /\ pc = "call" /\ fn = "smolvlm" /\ calls < MaxCalls
  /\ \E size \in BufferSizes, vision \in VisionOutcomes :
       /\ buf_width' = size.width /\ buf_height' = size.height
       /\ IF ~processor.initialized
          THEN ret' = "false" /\ UNCHANGED <<processor, num_patches>>
          ELSE IF ~processor.vision_session \/ vision \in {"run_failed", "no_outputs"}
          THEN ret' = "false" /\ UNCHANGED <<processor, num_patches>>
          ELSE IF vision = "extract_failed"
          THEN ret' = "err" /\ UNCHANGED <<processor, num_patches>>
          ELSE \E patches \in {PreprocessTiles(size.width, size.height)} :
               \E seq_len \in EncoderRows(Len(patches)) :
                 /\ processor' = [processor EXCEPT
                      !.image_embeddings = [some |-> TRUE, rows |-> seq_len]]
                 /\ num_patches' = Len(patches)
                 /\ ret' = "true"
  /\ op' = "process_image_from_buffer" /\ calls' = calls + 1
  /\ sessions_run' = IF processor.initialized /\ processor.vision_session
                     THEN {"vision"} ELSE {}
  /\ UNCHANGED <<user_prompt, full_prompt, input_ids, feature_idx, input_embeds,
                 rescaleVars, bridgeVars>>
  /\ UNCHANGED <<pc, image_path, orig_w, orig_h, rgb, splitVars, normVars,
                 fixedVars, tokVars>>
  /\ UNCHANGED memVars

\* the lexemes of the prompt argument
PromptLexemes == {"a", "<image>"}

PromptArgs == UNION {[1..n -> PromptLexemes] : n \in 0..MaxText}

\* the exits of generate_response after the prompt is built
GenerateOutcomes == {"encode_err", "embed_err", "decoder_err", "ok"}

\* the sessions generate_response has run when it leaves by that exit: the
\* embedding model after the prompt is encoded, the decoder after the splice
SessionsOf(outcome) ==
  IF outcome = "encode_err" THEN {}
  ELSE IF outcome = "embed_err" THEN {"embed"}
  ELSE {"embed", "decoder"}

\* the occurrences of the image token id in the encoded prompt
ImageTokenCount(ids, image_token_id) ==
  Cardinality({i \in DOMAIN ids : ids[i] = image_token_id})

\* the splice loop: feature_idx advances at every image token while it is
\* below image_embeddings.shape()[0]
SpliceCount(ids, image_token_id, rows) ==
  Min(ImageTokenCount(ids, image_token_id), rows)

\* the number of entries of the ascending sequence positions[lo..hi] that
\* are at most idx, plus lo - 1: the value of feature_idx + 1 when the loop
\* is at the image token at idx
RECURSIVE Occurrence(_, _, _, _)
Occurrence(positions, idx, lo, hi) ==
  IF lo > hi THEN lo - 1
  ELSE LET mid == (lo + hi) \div 2
       IN  IF positions[mid] <= idx
           THEN Occurrence(positions, idx, mid + 1, hi)
           ELSE Occurrence(positions, idx, lo, mid - 1)

\* input_embeds after the splice loop: the image token met while
\* feature_idx < image_embeddings.shape()[0] takes row feature_idx (counted
\* from 1 here), every other position keeps the embedding of its token
Splice(ids, image_token_id, rows) ==
  LET positions == ImagePositions(ids, image_token_id)
  IN  [i \in 1..Len(ids) |->
         IF ids[i] # image_token_id THEN 0
         ELSE LET k == Occurrence(positions, i - 1, 1, Len(positions))
              IN  IF k <= rows THEN k ELSE 0]

\* variant: initialized is not tested
GenerateResponseUnguarded ==
  /\ pc = "call" /\ fn = "smolvlm" /\ calls < MaxCalls
  /\ \E p \in PromptArgs :
       /\ user_prompt' = p
       /\ IF ~processor.image_embeddings.some
          THEN /\ ret' = "Please capture and process an image first."
               /\ full_prompt' = << >> /\ input_ids' = << >> /\ feature_idx' = 0
               /\ input_embeds' = << >> /\ sessions_run' = {}
          ELSE IF ~processor.tokenizer.some
                  \/ ~InVocab(processor.tokenizer.tk, SmolImageToken)
          THEN /\ ret' = "err"
               /\ full_prompt' = << >> /\ input_ids' = << >> /\ feature_idx' = 0
               /\ input_embeds' = << >> /\ sessions_run' = {}
          ELSE \E expanded \in {ExpandedPrompt(p)} :
               \E ids \in {Encode(processor.tokenizer.tk, expanded)} :
               \E spliced \in {SpliceCount(ids,
                                 TokenToId(processor.tokenizer.tk, SmolImageToken),
                                 processor.image_embeddings.rows)} :
               \E embeds \in {Splice(ids,
                                TokenToId(processor.tokenizer.tk, SmolImageToken),
                                processor.image_embeddings.rows)} :
               \E outcome \in GenerateOutcomes :
                 /\ full_prompt' = expanded
                 /\ input_ids' = IF outcome = "encode_err" THEN << >> ELSE ids
                 /\ feature_idx' = IF outcome \in {"encode_err", "embed_err"}
                                   THEN 0 ELSE spliced
                 /\ input_embeds' = IF outcome \in {"encode_err", "embed_err"}
                                    THEN << >> ELSE embeds
                 /\ sessions_run' = SessionsOf(outcome)
                 /\ ret' = IF outcome = "ok" THEN "generated" ELSE "err"
  /\ op' = "generate_response" /\ calls' = calls + 1
  /\ UNCHANGED <<processor, buf_width, buf_height, num_patches, rescaleVars, bridgeVars>>
  /\ UNCHANGED <<pc, image_path, orig_w, orig_h, rgb, splitVars, normVars,
                 fixedVars, tokVars>>
  /\ UNCHANGED memVars

GenerateResponse ==
  /\ pc = "call" /\ fn = "smolvlm" /\ calls < MaxCalls
  /\ \E p \in PromptArgs :
       /\ user_prompt' = p
       /\ IF ~processor.initialized
          THEN /\ ret' = "Error: Models not loaded"
               /\ full_prompt' = << >> /\ input_ids' = << >> /\ feature_idx' = 0
               /\ input_embeds' = << >> /\ sessions_run' = {}
          ELSE IF ~processor.image_embeddings.some
          THEN /\ ret' = "Please capture and process an image first."
               /\ full_prompt' = << >> /\ input_ids' = << >> /\ feature_idx' = 0
               /\ input_embeds' = << >> /\ sessions_run' = {}
          ELSE IF ~processor.tokenizer.some
                  \/ ~InVocab(processor.tokenizer.tk, SmolImageToken)
          THEN /\ ret' = "err"
               /\ full_prompt' = << >> /\ input_ids' = << >> /\ feature_idx' = 0
               /\ input_embeds' = << >> /\ sessions_run' = {}
          ELSE \E expanded \in {ExpandedPrompt(p)} :
               \E ids \in {Encode(processor.tokenizer.tk, expanded)} :
               \E spliced \in {SpliceCount(ids,
                                 TokenToId(processor.tokenizer.tk, SmolImageToken),
                                 processor.image_embeddings.rows)} :
               \E embeds \in {Splice(ids,
                                TokenToId(processor.tokenizer.tk, SmolImageToken),
                                processor.image_embeddings.rows)} :
               \E outcome \in GenerateOutcomes :
                 /\ full_prompt' = expanded
                 /\ input_ids' = IF outcome = "encode_err" THEN << >> ELSE ids
                 /\ feature_idx' = IF outcome \in {"encode_err", "embed_err"}
                                   THEN 0 ELSE spliced
                 /\ input_embeds' = IF outcome \in {"encode_err", "embed_err"}
                                    THEN << >> ELSE embeds
                 /\ sessions_run' = SessionsOf(outcome)
                 /\ ret' = IF outcome = "ok" THEN "generated" ELSE "err"
  /\ op' = "generate_response" /\ calls' = calls + 1
  /\ UNCHANGED <<processor, buf_width, buf_height, num_patches, rescaleVars, bridgeVars>>
  /\ UNCHANGED <<pc, image_path, orig_w, orig_h, rgb, splitVars, normVars,
                 fixedVars, tokVars>>
  /\ UNCHANGED memVars

InitSmol ==
  /\ IdleMem
  /\ pc = "call"
  /\ fn = "smolvlm"
  /\ IdleSmol
  /\ IdleTok
  /\ image_path = "null" /\ orig_w = 0 /\ orig_h = 0 /\ rgb = NoRaster
  /\ target_w = 0 /\ target_h = 0
  /\ do_rescale = FALSE /\ do_normalize = FALSE /\ tensor = NoTensor
  /\ IdleSplit
  /\ IdleFixed

NextSmol == LoadModels \/ ProcessImageFromBuffer \/ GenerateResponse

SpecSmol == InitSmol /\ [][NextSmol]_vars


(***************************************************************************)
(* Properties of the SmolVLM prompt.                                       *)
(***************************************************************************)
\* generate_response built, encoded and spliced a prompt and generated
Generated == fn = "smolvlm" /\ op = "generate_response" /\ ret = "generated"

\* the occurrences of the image token id in the encoded prompt
PromptPlaceholders ==
  ImageTokenCount(input_ids, TokenToId(processor.tokenizer.tk, "<image>"))

\* C12: dynamic policy: for every user prompt the token sequence built by
\* generate_response for the 4x4 grid with repeat 64 holds exactly
\* 4*4*64 + 64 = 1088 occurrences of the image token id.
C12_GridPlaceholderCount ==
  Generated => PromptPlaceholders = 4 * 4 * 64 + 64

\* C15: for every accepted image, the number of image placeholders in the
\* prompt built by generate_response is the number of tiles preprocess made
\* of the image times the repeat count 64.
C15_PlaceholdersMatchTiles ==
  Generated => PromptPlaceholders = num_patches * 64

\* C16: the expanded prompt lists the cells row by row; every cell is a
\* begin-marker, its <row_r_col_c> marker (r, c from 1) and 64 image
\* tokens; after the last cell come a begin-marker, the global-view marker,
\* 64 image tokens and an end-marker; the expansion stands between the role
\* markers, the user's text after it.  The line breaks of the expansion
\* (one after every row, one more before the global block) are set aside.
C16_ExpansionStructure ==
  (fn = "smolvlm" /\ op = "generate_response" /\ full_prompt # << >>) =>
    LET n == Len(full_prompt)
        m == Len(user_prompt)
        expansion == SubSeq(full_prompt, 3, n - m - 4)
        cells == SelectSeq(expansion, LAMBDA x : x # "\n")
        start(r, c) == ((r - 1) * 4 + (c - 1)) * 66
    IN  /\ full_prompt[1] = "<|im_start|>" /\ full_prompt[2] = "User:"
        /\ full_prompt[n - m - 3] = "\n"
        /\ SubSeq(full_prompt, n - m - 2, n - 3) = user_prompt
        /\ SubSeq(full_prompt, n - 2, n) = <<"<end_of_utterance>", "\n", "Assistant:">>
        /\ Len(cells) = 16 * 66 + 67
        /\ \A r \in 1..4, c \in 1..4 :
             /\ cells[start(r, c) + 1] = "<fake_token_around_image>"
             /\ cells[start(r, c) + 2] =
                  "<row_" \o ToString(r) \o "_col_" \o ToString(c) \o ">"
             /\ \A k \in 3..66 : cells[start(r, c) + k] = "<image>"
        /\ cells[16 * 66 + 1] = "<fake_token_around_image>"
        /\ cells[16 * 66 + 2] = "<global-img>"
        /\ \A k \in 3..66 : cells[16 * 66 + k] = "<image>"
        /\ cells[16 * 66 + 67] = "<fake_token_around_image>"
        /\ \A i \in 1..Len(expansion) :
             expansion[i] = "\n" <=> i \in {265, 530, 795, 1060, 1061}

\* a two-lexeme prompt has been expanded
C16_Witness ==
  /\ Generated
  /\ user_prompt = <<"a", "a">>
  /\ Len(full_prompt) = 2 + (16 * 66 + 67 + 5) + 1 + 2 + 3


(***************************************************************************)
(* nanovlm_decode and the boundary operations taken together, with every   *)
(* argument value the host can pass.                                       *)
(***************************************************************************)
\* the i64 values of the token_ids array
IdValues == {-1, 1, 3, 7}

\* the token_ids argument: a null pointer or an array of at most MaxText ids
IdsArgs ==
  {NoIds} \cup
  {[null |-> FALSE, ids |-> q] : q \in UNION {[1..n -> IdValues] : n \in 0..MaxText}}

\* tokenizer.decode(&ids_u32, true) when it succeeds: every id is cast with
\* `as u32`, which takes a negative id to one of 2^31 or more, outside the
\* vocabulary; ids of the added vocabulary are special tokens and skipped,
\* ids outside the vocabulary give no token
DecodeIds(tk, ids) ==
  LET known(i) == ids[i] >= 0 /\ ids[i] < Len(ModelVocab)
      cells == [i \in 1..Len(ids) |->
                  [keep |-> known(i) /\ ids[i] \notin AddedIds(tk),
                   lexeme |-> IF known(i) THEN ModelVocab[ids[i] + 1] ELSE ""]]
      kept == SelectSeq(cells, LAMBDA c : c.keep)
  IN  [i \in 1..Len(kept) |-> kept[i].lexeme]

\* variant: the handle is not checked for null
DecodeFailsHandleUnchecked(h, a, ok) == a.null \/ ~ok

\* the early returns of nanovlm_decode: a null handle or array, ids the
\* tokenizer does not decode (no lexeme holds a NUL byte, so CString::new
\* succeeds)
DecodeFails(h, a, ok) == h.null \/ a.null \/ ~ok

Decode ==
  /\ pc = "loaded" /\ fn = "nanovlm_load_tokenizer"
  /\ \E a \in IdsArgs, ok \in BOOLEAN :
       /\ ids_arg' = a /\ decode_ok' = ok
       /\ IF DecodeFails(handle, a, ok)
          THEN decoded' = NullString
          ELSE decoded' = [null |-> FALSE, s |-> DecodeIds(handle.tokenizer, a.ids)]
  /\ pc' = "decoded"
  /\ heap' = heap \cup StringBuffers(decoded')
  /\ UNCHANGED <<tokenizer_path, image_token, base, handle, text, image_token_length,
                 encode_ok, tok_result, smolVars, faulted>>
  /\ UNCHANGED <<image_path, orig_w, orig_h, rgb, splitVars, normVars, fixedVars>>

\* nanovlm_preprocess_image_with_splitting with any usize arguments
BoundaryCalls ==
  [w : 1..MaxDim, h : 1..MaxDim, m : 0..MaxSideBound, p : 0..MaxPatch, r : BOOLEAN]

InitSplitAny ==
  /\ IdleMem
  /\ pc = "call"
  /\ image_path \in PathKinds
  /\ \E c \in BoundaryCalls :
        /\ orig_w = (IF image_path = "image" THEN c.w ELSE 0)
        /\ orig_h = (IF image_path = "image" THEN c.h ELSE 0)
        /\ max_side_len = c.m
        /\ patch_size = c.p
        /\ resize_to_max = c.r
  /\ resampler_ok \in BOOLEAN
  /\ new_h = 0
  /\ new_w = 0
  /\ multi_image_data = NullMultiImageData
  /\ rgb = NoRaster
  /\ IdleNorm
  /\ IdleFixed
  /\ IdleText

\* nanovlm_preprocess_image with any usize target_size
InitFixedAny ==
  /\ IdleMem
  /\ pc = "call"
  /\ fn = "nanovlm_preprocess_image"
  /\ image_path \in PathKinds
  /\ target_size \in 0..MaxTarget
  /\ IF image_path = "image"
     THEN \E w \in 1..MaxDim, h \in 1..MaxDim, seed \in {0, 200} :
             rgb = Raster(w, h, seed) /\ orig_w = w /\ orig_h = h
     ELSE rgb = NoRaster /\ orig_w = 0 /\ orig_h = 0
  /\ image_data = NullImageData
  /\ target_w = 0 /\ target_h = 0
  /\ do_rescale = FALSE /\ do_normalize = FALSE /\ tensor = NoTensor
  /\ IdleSplit
  /\ IdleText

InitBoundary == InitSplitAny \/ InitFixedAny \/ InitTok

NextBoundary ==
  PreprocessImageWithSplitting \/ PreprocessImage \/ LoadTokenizer \/ Tokenize \/ Decode

SpecBoundary == InitBoundary /\ [][NextBoundary]_vars


(***************************************************************************)
(* Properties of the boundary operations.                                  *)
(***************************************************************************)
\* the operation called and that it has come to its end
SplitEnded == fn = "none" /\ pc # "call"
FixedEnded == fn = "nanovlm_preprocess_image" /\ pc # "call"
LoadEnded == fn = "nanovlm_load_tokenizer" /\ pc # "call"
TokenizeEnded == fn = "nanovlm_load_tokenizer" /\ pc = "done"
DecodeEnded == fn = "nanovlm_load_tokenizer" /\ pc = "decoded"

\* C19: a boundary operation given a null pointer, a string that is not
\* UTF-8, an unreadable or undecodable image, an unloadable tokenizer file
\* or an input the tokenizer rejects returns the sentinel (a null pointer,
\* or a struct with null data and all counts and dimensions 0) and hands no
\* buffer to the caller.
C19_FailureSentinel ==
  /\ (SplitEnded /\ image_path # "image") =>
       /\ pc = "done"
       /\ multi_image_data.null /\ multi_image_data.images = << >>
       /\ multi_image_data.num_images = 0
       /\ multi_image_data.grid_h = 0 /\ multi_image_data.grid_w = 0
  /\ (FixedEnded /\ image_path # "image") =>
       /\ pc = "done"
       /\ image_data.null /\ image_data.data = << >>
       /\ image_data.width = 0 /\ image_data.height = 0 /\ image_data.channels = 0
  /\ (LoadEnded /\ (tokenizer_path # "file" \/ image_token \in {"null", "not_utf8", ""})) =>
       handle.null /\ handle.tokenizer.added = << >>
  /\ (TokenizeEnded /\ (handle.null \/ text.kind # "utf8" \/ ~encode_ok)) =>
       /\ tok_result.null
       /\ tok_result.token_ids = << >> /\ tok_result.image_token_positions = << >>
       /\ tok_result.num_tokens = 0 /\ tok_result.num_image_tokens = 0
  /\ (DecodeEnded /\ (handle.null \/ ids_arg.null \/ ~decode_ok)) =>
       decoded.null /\ decoded.s = << >>

\* a loaded tokenizer has rejected a prompt and the sentinel was returned
C19_Witness ==
  /\ TokenizeEnded /\ ~handle.null /\ text.kind = "utf8" /\ Len(text.s) > 0
  /\ ~encode_ok
  /\ tok_result.null

\* C20: nanovlm_preprocess_image_with_splitting and nanovlm_preprocess_image
\* return a value for every argument combination, patch_size = 0,
\* max_side_len = 0, target_size = 0 and a resampler error included: no call
\* ends in a panic.
C20_NoUncatchableFault ==
  (SplitEnded \/ FixedEnded) => pc # "panic"


(***************************************************************************)
(* Release operations and the life of a handle                             *)
(*   nanovlm_free_tokenizer, nanovlm_free_tokenization_result,             *)
(*   nanovlm_free_image_data, nanovlm_free_multi_image_data,               *)
(*   nanovlm_free_string                   (rust-tokenizer/src/lib.rs)     *)
(* The host passes every result once to its release operation before it    *)
(* makes the next call, keeps nothing of a released result, and releases   *)
(* the handle last.                                                        *)
(***************************************************************************)
\* nanovlm_free_tokenizer: Box::from_raw of a non-null handle
HandleFrees(h) == IF h.null THEN {} ELSE Buffer("handle", 0, 1)

\* variant: both slices are rebuilt with num_tokens elements
TokenizationResultFreesOneLength(result) ==
  IF result.null THEN {}
  ELSE Buffer("token_ids", 0, result.num_tokens)
         \cup Buffer("image_token_positions", 0, result.num_tokens)

\* nanovlm_free_tokenization_result: each pointer that is not null is
\* rebuilt as a slice of the count stored next to it and dropped
TokenizationResultFrees(result) ==
  IF result.null THEN {}
  ELSE Buffer("token_ids", 0, result.num_tokens)
         \cup Buffer("image_token_positions", 0, result.num_image_tokens)

\* nanovlm_free_image_data: total_size = channels * width * height
ImageDataFrees(img) ==
  IF img.null THEN {} ELSE Buffer("data", 0, img.channels * img.width * img.height)

\* nanovlm_free_multi_image_data: every tile with its channels * width *
\* height, then the array of num_images structs
MultiImageFrees(multi) ==
  IF multi.null THEN {}
  ELSE UNION {Buffer("data", i, multi.images[i].channels * multi.images[i].width
                                  * multi.images[i].height) :
                i \in 1..multi.num_images}
         \cup Buffer("images", 0, multi.num_images)

\* nanovlm_free_string: CString::from_raw takes the bytes up to the NUL
StringFrees(str) == IF str.null THEN {} ELSE Buffer("string", 0, Len(str.s) + 1)

FreeTokenizer ==
  /\ pc = "loaded" /\ fn = "nanovlm_load_tokenizer"
  /\ \E frees \in {HandleFrees(handle)} :
       heap' = heap \ frees /\ faulted' = (faulted \/ ~(frees \subseteq heap))
  /\ pc' = "closed"
  /\ UNCHANGED <<image_path, orig_w, orig_h, rgb, splitVars, normVars, fixedVars,
                 textVars>>

FreeTokenizationResult ==
  /\ pc = "done" /\ fn = "nanovlm_load_tokenizer"
  /\ \E frees \in {TokenizationResultFrees(tok_result)} :
       heap' = heap \ frees /\ faulted' = (faulted \/ ~(frees \subseteq heap))
  /\ text' = NoText /\ image_token_length' = 0 /\ encode_ok' = FALSE
  /\ tok_result' = NullTokenizationResult
  /\ pc' = "loaded"
  /\ UNCHANGED <<tokenizer_path, image_token, base, handle, fn, smolVars>>
  /\ UNCHANGED <<ids_arg, decode_ok, decoded>>
  /\ UNCHANGED <<image_path, orig_w, orig_h, rgb, splitVars, fixedVars>>
  /\ UNCHANGED <<target_w, target_h, do_rescale, do_normalize, tensor>>

FreeString ==
  /\ pc = "decoded" /\ fn = "nanovlm_load_tokenizer"
  /\ \E frees \in {StringFrees(decoded)} :
       heap' = heap \ frees /\ faulted' = (faulted \/ ~(frees \subseteq heap))
  /\ ids_arg' = NoIds /\ decode_ok' = FALSE /\ decoded' = NullString
  /\ pc' = "loaded"
  /\ UNCHANGED <<tokenizer_path, image_token, base, handle, text, image_token_length,
                 encode_ok, tok_result, smolVars>>
  /\ UNCHANGED <<image_path, orig_w, orig_h, rgb, splitVars, normVars, fixedVars>>

FreeImageData ==
  /\ pc = "done" /\ fn = "nanovlm_preprocess_image"
  /\ \E frees \in {ImageDataFrees(image_data)} :
       heap' = heap \ frees /\ faulted' = (faulted \/ ~(frees \subseteq heap))
  /\ pc' = "freed"
  /\ UNCHANGED <<image_path, orig_w, orig_h, rgb, splitVars, normVars, fixedVars,
                 textVars>>

FreeMultiImageData ==
  /\ pc = "done" /\ fn = "none"
  /\ \E frees \in {MultiImageFrees(multi_image_data)} :
       heap' = heap \ frees /\ faulted' = (faulted \/ ~(frees \subseteq heap))
  /\ pc' = "freed"
  /\ UNCHANGED <<image_path, orig_w, orig_h, rgb, splitVars, normVars, fixedVars,
                 textVars>>

NextLifecycle ==
  \/ NextBoundary
  \/ FreeTokenizer \/ FreeTokenizationResult \/ FreeString
  \/ FreeImageData \/ FreeMultiImageData

SpecLifecycle == InitBoundary /\ [][NextLifecycle]_vars


(***************************************************************************)
(* Properties of handles and buffers.                                      *)
(***************************************************************************)
\* the load call was given a tokenizer file and an image token it resolves
LoadSucceeds ==
  /\ tokenizer_path = "file"
  /\ image_token \notin {"null", "not_utf8", ""}

\* C21: in every sequence of calls, nanovlm_tokenize returns a non-empty
\* result only for the handle of a load that read the tokenizer file,
\* registered the special tokens and resolved the image token id; after a
\* failed load the handle is null, and every tokenize and decode call on it
\* returns the null result.
C21_ResultOnlyFromLoadedHandle ==
  /\ (TokenizeEnded /\ ~tok_result.null) =>
       /\ LoadSucceeds /\ ~handle.null
       /\ handle.tokenizer.vocab_size = base.vocab_size
       /\ handle.tokenizer.registrations = 1
       /\ \A k \in 1..66 : TableEntry(k) \in AddedContents(handle.tokenizer)
       /\ handle.image_token_id = AddedId(handle.tokenizer, image_token)
  /\ (LoadEnded /\ ~LoadSucceeds) => handle.null
  /\ (TokenizeEnded /\ ~LoadSucceeds) => tok_result.null
  /\ (DecodeEnded /\ ~LoadSucceeds) => decoded.null

\* after a failed load, a decode call with ids a tokenizer would decode
\* has returned null
C21_Witness ==
  /\ DecodeEnded /\ tokenizer_path = "unloadable"
  /\ ~ids_arg.null /\ Len(ids_arg.ids) > 0 /\ decode_ok
  /\ decoded.null /\ handle.null /\ heap = {}

\* C22: every buffer handed out by a successful call is released by its
\* release operation with the length it was allocated with; once each
\* result has been passed to its release operation nothing is outstanding,
\* and releasing a failure sentinel frees nothing.
C22_ReleaseMatchesAllocation ==
  /\ ~faulted
  /\ pc \in {"freed", "closed"} => heap = {}
  /\ (fn = "nanovlm_load_tokenizer" /\ pc = "loaded") => heap = HandleBuffers(handle)
  /\ TokenizeEnded => heap = HandleBuffers(handle) \cup TokenizationBuffers(tok_result)
  /\ DecodeEnded => heap = HandleBuffers(handle) \cup StringBuffers(decoded)
  /\ (pc = "done" /\ fn = "nanovlm_preprocess_image") => heap = ImageDataBuffers(image_data)
  /\ (pc = "done" /\ fn = "none") => heap = MultiImageBuffers(multi_image_data)
  /\ (pc = "done" /\ fn = "none" /\ image_path # "image") => heap = {}

\* a global view and two tiles have been released, with their array
C22_Witness ==
  /\ pc = "freed" /\ fn = "none"
  /\ multi_image_data.num_images = 3
  /\ heap = {} /\ ~faulted


(***************************************************************************)
(* The longest-edge policy on its own                                      *)
(*   SmolVLMImageProcessor::rescale_size                                   *)
(*                                  (smolvlm_rs_lib/src/image_processor.rs)*)
(***************************************************************************)
\* sizes of photographs and panoramas with the limit of the default
\* processor
RescaleScenarios ==
  { [height |-> 1536, width |-> 1024, max_size |-> size_longest_edge],
    [height |-> 4096, width |-> 2731, max_size |-> size_longest_edge],
    [height |-> 2731, width |-> 4096, max_size |-> size_longest_edge],
    [height |-> 3394, width |-> 3515, max_size |-> size_longest_edge],
    [height |-> 1,    width |-> 8192, max_size |-> size_longest_edge] }

RescaleArgs ==
  [height : 1..MaxEdgeLen, width : 1..MaxEdgeLen, max_size : 1..MaxEdgeLen]
    \cup RescaleScenarios

InitRescale ==
  /\ IdleMem
  /\ pc = "call"
  /\ fn = "rescale_size"
  /\ \E a \in RescaleArgs :
       buf_height = a.height /\ buf_width = a.width /\ longest_edge = a.max_size
  /\ rescaled = NoSize
  /\ IdleBridge
  /\ processor = NewProcessor /\ calls = 0 /\ op = "none" /\ ret = "none"
  /\ num_patches = 0
  /\ user_prompt = << >> /\ full_prompt = << >> /\ input_ids = << >>
  /\ feature_idx = 0 /\ input_embeds = << >> /\ sessions_run = {}
  /\ IdleTok
  /\ image_path = "null" /\ orig_w = 0 /\ orig_h = 0 /\ rgb = NoRaster
  /\ target_w = 0 /\ target_h = 0
  /\ do_rescale = FALSE /\ do_normalize = FALSE /\ tensor = NoTensor
  /\ IdleSplit
  /\ IdleFixed

RescaleSize ==
  /\ pc = "call" /\ fn = "rescale_size"
  /\ rescaled' = rescale_size(buf_height, buf_width, longest_edge)
  /\ pc' = "done"
  /\ UNCHANGED <<processor, calls, op, ret, buf_width, buf_height, num_patches,
                 user_prompt, full_prompt, input_ids, feature_idx, input_embeds,
                 sessions_run,
                 longest_edge, bridgeVars>>
  /\ UNCHANGED <<image_path, orig_w, orig_h, rgb, splitVars, normVars,
                 fixedVars, tokVars>>
  /\ UNCHANGED memVars

NextRescale == RescaleSize

SpecRescale == InitRescale /\ [][NextRescale]_vars


(***************************************************************************)
(* Properties of the longest-edge policy.                                  *)
(***************************************************************************)
RescaleEnded == fn = "rescale_size" /\ pc = "done"

\* r is an integer nearest to n / d
NearestTo(r, n, d) == 2 * r * d - 2 * n <= d /\ 2 * n - 2 * r * d <= d

\* C23: rescale_size((h, w), maxSize) returns (h, w) unchanged when
\* max(h, w) <= maxSize, and otherwise both dimensions multiplied by
\* maxSize / max(h, w) and rounded to the nearest integer, so that the
\* longer side is exactly maxSize.
C23_LongestEdgePolicy ==
  RescaleEnded =>
    IF Max(buf_height, buf_width) <= longest_edge
    THEN rescaled = [height |-> buf_height, width |-> buf_width]
    ELSE /\ NearestTo(rescaled.height, buf_height * longest_edge,
                      Max(buf_height, buf_width))
         /\ NearestTo(rescaled.width, buf_width * longest_edge,
                      Max(buf_height, buf_width))
         /\ Max(rescaled.height, rescaled.width) = longest_edge

\* C29: for every height >= 1, width >= 1 and max_size >= 1, rescale_size
\* returns a height and a width that are both at least 1.
C29_RescaledPositive ==
  RescaleEnded => rescaled.height >= 1 /\ rescaled.width >= 1


(***************************************************************************)
(* Properties of the splice.                                               *)
(***************************************************************************)
\* the positions of the image token id in the encoded prompt, from 1
SplicePositions ==
  LET image_token_id == TokenToId(processor.tokenizer.tk, SmolImageToken)
  IN  SelectSeq([i \in 1..Len(input_ids) |-> i], LAMBDA i : input_ids[i] = image_token_id)

\* the positions that hold a feature row
SplicedAt == {i \in 1..Len(input_embeds) : input_embeds[i] # 0}

\* C25: after the splice of generate_response the k-th occurrence of the
\* image token id, in ascending position, holds feature row k, no feature
\* row is used twice, and every position whose token id is not the image
\* token id keeps its embedding.
C25_SpliceInEncounterOrder ==
  Generated =>
    \A positions \in {SplicePositions} : \A at \in {SplicedAt} :
      /\ Len(input_embeds) = Len(input_ids)
      /\ \A k \in 1..Len(positions) : input_embeds[positions[k]] = k
      /\ Cardinality({input_embeds[i] : i \in at}) = Cardinality(at)
      /\ at \subseteq {positions[k] : k \in 1..Len(positions)}

\* what the loop does establish: the same for the occurrences up to the
\* number of feature rows
SpliceUpToRows ==
  Generated =>
    \A positions \in {SplicePositions} : \A at \in {SplicedAt} :
      /\ Len(input_embeds) = Len(input_ids)
      /\ \A k \in 1..Min(Len(positions), processor.image_embeddings.rows) :
           input_embeds[positions[k]] = k
      /\ Cardinality({input_embeds[i] : i \in at}) = Cardinality(at)
      /\ at \subseteq {positions[k] : k \in 1..Len(positions)}


(***************************************************************************)
(* The host bridge                                                         *)
(*   get_or_create_instance and the Java_..._SmolVLMAndroid_* functions    *)
(*   static mut SMOLVLM_INSTANCE        (smolvlm_rs_lib/src/lib.rs)        *)
(*   OnceLock SMOLVLM_INSTANCE          (smolvlm_rs_lib/src/lib_simple.rs) *)
(* Host threads call the bridge functions at the same time; a step is one  *)
(* access to the static or to the Mutex in it.  The unsynchronised         *)
(* accesses of the static mut variant are a data race: every interleaving  *)
(* of its reads and writes is an outcome.                                  *)
(***************************************************************************)
BridgeVariants == {"static_mut", "once_lock"}

BridgeCalls == {"loadModels", "processImageFromBuffer", "generateResponse"}

InitBridge ==
  /\ IdleMem
  /\ pc = "call"
  /\ fn = "host_bridge"
  /\ variant \in BridgeVariants
  /\ jni_call \in [Threads -> BridgeCalls]
  /\ thread_pc = [t \in Threads |-> "start"]
  /\ SMOLVLM_INSTANCE = 0 /\ instances_created = 0
  /\ instance_ref = [t \in Threads |-> 0]
  /\ lock_owner = 0 /\ operating = {}
  /\ IdleRescale
  /\ processor = NewProcessor /\ calls = 0 /\ op = "none" /\ ret = "none"
  /\ buf_width = 0 /\ buf_height = 0 /\ num_patches = 0
  /\ user_prompt = << >> /\ full_prompt = << >> /\ input_ids = << >>
  /\ feature_idx = 0 /\ input_embeds = << >> /\ sessions_run = {}
  /\ IdleTok
  /\ image_path = "null" /\ orig_w = 0 /\ orig_h = 0 /\ rgb = NoRaster
  /\ target_w = 0 /\ target_h = 0
  /\ do_rescale = FALSE /\ do_normalize = FALSE /\ tensor = NoTensor
  /\ IdleSplit
  /\ IdleFixed

\* what a step of the bridge leaves alone
BridgeFrame ==
  /\ UNCHANGED <<variant, jni_call>>
  /\ UNCHANGED <<processor, calls, op, ret, buf_width, buf_height, num_patches,
                 user_prompt, full_prompt, input_ids, feature_idx, input_embeds,
                 sessions_run,
                 rescaleVars>>
  /\ UNCHANGED <<pc, image_path, orig_w, orig_h, rgb, splitVars, normVars,
                 fixedVars, tokVars>>
  /\ UNCHANGED memVars

\* static mut: if SMOLVLM_INSTANCE.is_none()
CheckNone(t) ==
  /\ fn = "host_bridge" /\ variant = "static_mut" /\ thread_pc[t] = "start"
  /\ thread_pc' = [thread_pc EXCEPT ![t] = IF SMOLVLM_INSTANCE = 0 THEN "create" ELSE "get"]
  /\ UNCHANGED <<SMOLVLM_INSTANCE, instances_created, instance_ref, lock_owner, operating>>
  /\ BridgeFrame

\* static mut: SMOLVLM_INSTANCE = Some(Mutex::new(SmolVLMProcessor::new())),
\* which drops what the static held and puts a new, free Mutex in its place
CreateInstance(t) ==
  /\ fn = "host_bridge" /\ variant = "static_mut" /\ thread_pc[t] = "create"
  /\ instances_created' = instances_created + 1
  /\ SMOLVLM_INSTANCE' = instances_created + 1
  /\ lock_owner' = 0
  /\ thread_pc' = [thread_pc EXCEPT ![t] = "get"]
  /\ UNCHANGED <<instance_ref, operating>>
  /\ BridgeFrame

\* static mut: SMOLVLM_INSTANCE.as_ref().unwrap()
GetInstance(t) ==
  /\ fn = "host_bridge" /\ variant = "static_mut" /\ thread_pc[t] = "get"
  /\ instance_ref' = [instance_ref EXCEPT ![t] = SMOLVLM_INSTANCE]
  /\ thread_pc' = [thread_pc EXCEPT ![t] = "lock"]
  /\ UNCHANGED <<SMOLVLM_INSTANCE, instances_created, lock_owner, operating>>
  /\ BridgeFrame

\* OnceLock: SMOLVLM_INSTANCE.get_or_init(..), which runs the initialiser
\* for one caller only and gives every caller the value it stored
GetOrInit(t) ==
  /\ fn = "host_bridge" /\ variant = "once_lock" /\ thread_pc[t] = "start"
  /\ IF SMOLVLM_INSTANCE = 0
     THEN /\ instances_created' = instances_created + 1
          /\ SMOLVLM_INSTANCE' = instances_created + 1
     ELSE UNCHANGED <<SMOLVLM_INSTANCE, instances_created>>
  /\ instance_ref' = [instance_ref EXCEPT ![t] = SMOLVLM_INSTANCE']
  /\ thread_pc' = [thread_pc EXCEPT ![t] = "lock"]
  /\ UNCHANGED <<lock_owner, operating>>
  /\ BridgeFrame

\* instance.lock(), then the processor method of the call
LockInstance(t) ==
  /\ fn = "host_bridge" /\ thread_pc[t] = "lock"
  /\ lock_owner = 0
  /\ lock_owner' = t
  /\ operating' = operating \cup {t}
  /\ thread_pc' = [thread_pc EXCEPT ![t] = "operate"]
  /\ UNCHANGED <<SMOLVLM_INSTANCE, instances_created, instance_ref>>
  /\ BridgeFrame

\* the method returns and the guard is dropped, which frees the Mutex now
\* in the static
UnlockInstance(t) ==
  /\ fn = "host_bridge" /\ thread_pc[t] = "operate"
  /\ operating' = operating \ {t}
  /\ lock_owner' = 0
  /\ thread_pc' = [thread_pc EXCEPT ![t] = "done"]
  /\ UNCHANGED <<SMOLVLM_INSTANCE, instances_created, instance_ref>>
  /\ BridgeFrame

NextBridge ==
  \E t \in Threads :
    \/ CheckNone(t) \/ CreateInstance(t) \/ GetInstance(t)
    \/ GetOrInit(t)
    \/ LockInstance(t) \/ UnlockInstance(t)

SpecBridge == InitBridge /\ [][NextBridge]_vars


(***************************************************************************)
(* Properties of the host bridge.                                          *)
(***************************************************************************)
\* the threads get_or_create_instance has returned to
Returned == {t \in Threads : thread_pc[t] \in {"lock", "operate", "done"}}

\* C26: in both bridge variants, under any interleaving of first calls
\* from several threads, get_or_create_instance creates one processor,
\* every caller obtains that same processor, and at most one thread is
\* inside loadModels / processImageFromBuffer / generateResponse.
C26_SingleInstance ==
  fn = "host_bridge" =>
    /\ instances_created <= 1
    /\ Returned # {} => instances_created = 1
    /\ \A t \in Returned : instance_ref[t] = 1
    /\ Cardinality(operating) <= 1

\* the same for the OnceLock variant alone
OnceLockSingleInstance ==
  (fn = "host_bridge" /\ variant = "once_lock") =>
    /\ instances_created <= 1
    /\ Returned # {} => instances_created = 1
    /\ \A t \in Returned : instance_ref[t] = 1
    /\ Cardinality(operating) <= 1


(***************************************************************************)
(* Properties of the SmolVLM processor state.                              *)
(***************************************************************************)
\* the tokenizer and the three sessions are present
AllLoaded ==
  /\ processor.tokenizer.some
  /\ processor.vision_session /\ processor.embed_session /\ processor.decoder_session

\* a load_models call that failed
LoadFailedStep == op' = "load_models" /\ calls' = calls + 1 /\ ret' = "err"

\* C27: load_models is all-or-nothing: a call that fails at the tokenizer
\* or at any of the three sessions modifies none of vision_session,
\* embed_session, decoder_session, tokenizer and initialized, and in every
\* reachable state initialized implies that the tokenizer and the three
\* sessions are present.
C27_LoadAllOrNothing ==
  /\ [](fn = "smolvlm" => (processor.initialized => AllLoaded))
  /\ [][(fn = "smolvlm" /\ LoadFailedStep) => processor' = processor]_vars

\* a load failed after an earlier one succeeded, and the processor is
\* still complete
C27_Witness ==
  /\ fn = "smolvlm" /\ op = "load_models" /\ ret = "err" /\ calls >= 2
  /\ processor.initialized /\ AllLoaded

\* C28: in every sequence of calls on the processor no session is run
\* before a load_models call has succeeded: until then
\* process_image_from_buffer returns false and stores no embeddings and
\* generate_response returns "Error: Models not loaded"; after a
\* successful load and before an image has been processed successfully
\* generate_response returns "Please capture and process an image first."
\* and runs no session.
C28_NoRunBeforeLoad ==
  /\ [](fn = "smolvlm" =>
          /\ ~processor.initialized =>
               /\ sessions_run = {}
               /\ ~processor.image_embeddings.some
               /\ op = "process_image_from_buffer" => ret = "false"
               /\ op = "generate_response" => ret = "Error: Models not loaded"
          /\ (processor.initialized /\ ~processor.image_embeddings.some
                /\ op = "generate_response") =>
               /\ ret = "Please capture and process an image first."
               /\ sessions_run = {})
  /\ [][(fn = "smolvlm" /\ ~processor.initialized /\ processor'.initialized)
          => (op' = "load_models" /\ ret' = "true")]_vars
  /\ [][(fn = "smolvlm" /\ ~processor.image_embeddings.some
           /\ processor'.image_embeddings.some)
          => (op' = "process_image_from_buffer" /\ ret' = "true"
                /\ processor.initialized)]_vars

\* generate_response was called after a successful load and a failed
\* image, and before any load
C28_Witness ==
  /\ fn = "smolvlm" /\ op = "generate_response" /\ calls = 3
  /\ processor.initialized /\ ~processor.image_embeddings.some
  /\ ret = "Please capture and process an image first."


====
